---------------------------- MODULE Spec2Model ----------------------------
(***************************************************************************)
(* A model of TyDB (src/tydb): the reference-graph walker and join         *)
(* builder of TableMeta (models.py), the row materializer (queries.py)     *)
(* and the session operations (session.py).                                *)
(***************************************************************************)
EXTENDS Integers, Sequences, FiniteSets, TLC

VARIABLES
    schema,     \* the declared tables: their fields, references, primary keys
    wtable,     \* walk_refs: the table walk_refs() was called on
    wstack,     \* walk_refs: the call stack, one frame per active call
    wresult,    \* walk_refs: the list returned by the outermost call
    wpc,        \* walk_refs: "run" while a call is active, then "done"
    jtable,     \* join_refs: the table join_refs() is called on
    jspecs,     \* join_refs: the path specs passed
    jresult,    \* join_refs: what the call returned or raised
    jpc,        \* join_refs: "call" before the call, then "done"
    dialect,    \* session: the Dialect the session was opened with
    db,         \* session: the rows of each table behind the connection
    serial,     \* session: the last key the server generated, per table
    out,        \* session: the last call and what it returned or raised
    result,     \* result object: the _QueryResult or _AsyncQueryResult being consumed
    cons,       \* result object: each consumer of it, its iterator and what it yielded
    hist,       \* result object: the kind of the result, and what its first iteration yielded
    call,       \* the session operation being executed and the driver behind it
    xst,        \* how far the execution of its statement has come, and with what
    descs,      \* declaration: every Field and Reference descriptor made so far
    classes,    \* declaration: the Table classes, their attribute slots, base and primary key
    decl,       \* declaration: the last statement and what it raised
    conn,       \* connection: the cursors the last call acquired and what it did through them
    expr        \* expression: the operands Expr() was called with and the Expr it made

walkVars == <<wtable, wstack, wresult, wpc>>
joinVars == <<jtable, jspecs, jresult, jpc>>
\* the dialect of the session, the rows and the key counter of each table of
\* the database behind its connection, and the outcome of the last call
sessVars == <<dialect, db, serial, out>>

\* the result object of the consumer machine, its consumers and its history
resVars == <<result, cons, hist>>

\* the operation whose statement is being executed, and its progress
execVars == <<call, xst>>

\* the descriptors and classes of the declaration machine
declVars == <<descs, classes, decl>>

\* the log of the connection of the session
connVars == <<conn>>

\* the expression being constructed
exprVars == <<expr>>

vars == <<schema, walkVars, joinVars, sessVars, resVars, execVars, declVars, connVars, exprVars>>

\* no session is open: the state of the session variables in the
\* specifications of the table metadata
NoSession ==
    /\ dialect = "" /\ db = <<>> /\ serial = <<>> /\ out = <<>>

\* no result object is being consumed: the state of the consumer machine's
\* variables in the other specifications
NoResult ==
    /\ result = <<>> /\ cons = <<>> /\ hist = <<>>

\* no statement is being executed: the state of the execution variables in
\* the other specifications
NoExecute ==
    /\ call = <<>> /\ xst = <<>>

\* no schema is being declared: the state of the declaration variables in
\* the other specifications
NoDecl ==
    /\ descs = <<>> /\ classes = <<>> /\ decl = <<>>

\* no connection is being watched: the state of the connection log in the
\* other specifications
NoConn ==
    /\ conn = <<>>

\* no expression is being constructed: the state of the expression
\* variable in the other specifications
NoExpr ==
    /\ expr = <<>>

(***************************************************************************)
(* Bounds of the model.                                                    *)
(***************************************************************************)
\* number of Reference declarations in a schema of the walk family
MaxRefs == 3
\* the deepest call stack the model follows before it stops descending
MaxDepth == 6
\* number of path specs passed to one join_refs call
MaxSpecs == 3

(***************************************************************************)
(* Helpers on sequences.                                                   *)
(***************************************************************************)
Range(s) == {s[i] : i \in 1..Len(s)}

Last(s) == s[Len(s)]

Front(s) == SubSeq(s, 1, Len(s) - 1)

IsPrefix(p, s) == Len(p) <= Len(s) /\ SubSeq(s, 1, Len(p)) = p

(***************************************************************************)
(* The schema.  schema.refs[t] lists the Reference descriptors of table t  *)
(* in the order TableMeta._filter yields them: dir(table) is sorted by     *)
(* attribute name.  A reference record carries what Reference.__init__     *)
(* and __set_name__ store: name, owner, the local field, the target table, *)
(* and (through field.foreign) the referenced field.                       *)
(***************************************************************************)
WalkTables == {"t1", "t2", "t3"}

Ref(name, owner, field, table, foreign) ==
    [name |-> name, owner |-> owner, field |-> field, table |-> table,
     foreign |-> foreign]

\* TableMeta.references: the references declared on a table, by name
references(t) == schema.refs[t]

(***************************************************************************)
(* TableMeta.walk_refs as a machine: one frame per call, holding the       *)
(* table, the seen tuple, the position in the loop over references and     *)
(* the specs list built so far.                                            *)
(***************************************************************************)
Frame(t, seen) == [table |-> t, seen |-> seen, idx |-> 1, specs |-> <<>>]

WalkTop == wstack[Len(wstack)]

\* the reference the loop of the top frame is at
WalkRef == references(WalkTop.table)[WalkTop.idx]

\* models.py line 99, broken: the cycle check never fires
InSeenNever(ref, seen) == FALSE

\* models.py line 99, broken: the table walked is itself taken as seen
InSeenOrOwner(ref, seen) == ref.table \in Range(seen) \/ ref.table = ref.owner

\* models.py line 99: "ref.table in seen"
InSeen(ref, seen) == ref.table \in Range(seen)

\* line 99-100: the reference leads to a table already entered: continue
WalkSkip ==
    /\ wpc = "run"
    /\ WalkTop.idx <= Len(references(WalkTop.table))
    /\ InSeen(WalkRef, WalkTop.seen)
    /\ wstack' = [wstack EXCEPT ![Len(wstack)].idx = @ + 1]
    /\ UNCHANGED <<schema, wtable, wresult, wpc, joinVars, sessVars, resVars, execVars, declVars, connVars, exprVars>>

\* lines 101-102: specs.append((ref,)) and the recursive call
\* ref.table.meta.walk_refs(ref.table, *seen)
WalkCall ==
    /\ wpc = "run"
    /\ WalkTop.idx <= Len(references(WalkTop.table))
    /\ ~InSeen(WalkRef, WalkTop.seen)
    /\ Len(wstack) < MaxDepth
    /\ wstack' = Append(
            [wstack EXCEPT ![Len(wstack)].specs = Append(@, <<WalkRef>>)],
            Frame(WalkRef.table, <<WalkRef.table>> \o WalkTop.seen))
    /\ UNCHANGED <<schema, wtable, wresult, wpc, joinVars, sessVars, resVars, execVars, declVars, connVars, exprVars>>

\* line 104: return specs; in the caller, lines 102-103 prepend (ref,) to
\* every returned spec and the loop moves on
WalkReturn ==
    /\ wpc = "run"
    /\ WalkTop.idx > Len(references(WalkTop.table))
    /\ IF Len(wstack) = 1
       THEN /\ wresult' = WalkTop.specs
            /\ wpc' = "done"
            /\ wstack' = <<>>
       ELSE LET caller == wstack[Len(wstack) - 1]
                ref == references(caller.table)[caller.idx]
                sub == WalkTop.specs
                got == [i \in 1..Len(sub) |-> <<ref>> \o sub[i]]
            IN /\ wstack' = [Front(wstack) EXCEPT
                                ![Len(wstack) - 1].specs = @ \o got,
                                ![Len(wstack) - 1].idx = @ + 1]
               /\ UNCHANGED <<wresult, wpc>>
    /\ UNCHANGED <<schema, wtable, joinVars, sessVars, resVars, execVars, declVars, connVars, exprVars>>

\* the schemas of the walk family: MaxRefs references ref1..refN, each
\* declared on any table and leading to any table (itself included)
WalkSchema(assign) ==
    LET all == [i \in 1..MaxRefs |->
                   Ref("ref" \o ToString(i), assign[i][1],
                       "ref" \o ToString(i) \o "_key", assign[i][2], "key")]
        RECURSIVE Of(_, _)
        Of(t, i) == IF i > MaxRefs THEN <<>>
                    ELSE (IF all[i].owner = t THEN <<all[i]>> ELSE <<>>)
                         \o Of(t, i + 1)
    IN [tables |-> WalkTables,
        refs |-> [t \in WalkTables |-> Of(t, 1)]]

InitWalk ==
    /\ \E assign \in [1..MaxRefs -> WalkTables \X WalkTables] :
           schema = WalkSchema(assign)
    /\ wtable \in WalkTables
    /\ wstack = <<Frame(wtable, <<>>)>>
    /\ wresult = <<>>
    /\ wpc = "run"
    /\ jtable = "" /\ jspecs = <<>> /\ jresult = <<>> /\ jpc = "idle"
    /\ NoSession
    /\ NoExpr
    /\ NoConn
    /\ NoDecl
    /\ NoExecute
    /\ NoResult

NextWalk == WalkSkip \/ WalkCall \/ WalkReturn

SpecWalk == InitWalk /\ [][NextWalk]_vars

\* walk_refs runs on one thread with nothing to wait for: every step that
\* can be taken is taken
SpecWalkFair == SpecWalk /\ WF_vars(NextWalk)

(***************************************************************************)
(* What walk_refs is to return: the reference chains from a table.         *)
(***************************************************************************)
AllRefs == UNION {Range(schema.refs[t]) : t \in schema.tables}

\* a chain from t: the first reference is declared on t, each further one
\* on the table the previous one leads to, and no two lead to the same table
IsChainFrom(c, t) ==
    /\ c[1].owner = t
    /\ \A i \in 1..(Len(c) - 1) : c[i + 1].owner = c[i].table
    /\ \A i \in 1..Len(c) : \A j \in 1..Len(c) :
           i # j => c[i].table # c[j].table

ChainsFrom(t) ==
    {c \in UNION {[1..n -> AllRefs] : n \in 1..Cardinality(schema.tables)} :
        IsChainFrom(c, t)}

NoDuplicates(s) == \A i \in 1..Len(s) : \A j \in 1..Len(s) : i # j => s[i] # s[j]

\* a table whose only reference leads to itself (Loop of test_table.py)
IsLoopTable(t) ==
    /\ Len(references(t)) = 1
    /\ references(t)[1].table = t

\* two tables whose only references lead to each other (Forth and Back)
IsForthBack(f, b) ==
    /\ f # b
    /\ Len(references(f)) = 1 /\ references(f)[1].table = b
    /\ Len(references(b)) = 1 /\ references(b)[1].table = f

\* C6: walk_refs terminates on every finite schema, self-referencing tables
\* and reference cycles of any length included: every run of the walk
\* reaches its outermost return.
C6_WalkTerminates == <>(wpc = "done")

\* C6 witness: a walk that has returned on a schema where three tables
\* reference each other in a cycle through the table walked
C6_Witness ==
    /\ wpc = "done"
    /\ \E p \in Range(wresult) : Len(p) = 3 /\ p[3].table = wtable

\* C7: walk_refs(T) returns, each exactly once, exactly the chains from T
\* that enter no table twice; a self-referencing table L yields [(L.loop,)]
\* and Forth/Back yield [(Forth.back,), (Forth.back, Back.forth)].
C7_WalkExact ==
    wpc = "done" =>
        /\ Range(wresult) = ChainsFrom(wtable)
        /\ NoDuplicates(wresult)
        /\ IsLoopTable(wtable) => wresult = << <<references(wtable)[1]>> >>
        /\ \A b \in schema.tables :
               IsForthBack(wtable, b) =>
                   wresult = << <<references(wtable)[1]>>,
                                <<references(wtable)[1], references(b)[1]>> >>

\* C7 witness: the walk of Forth has returned its two chains
C7_Witness ==
    /\ wpc = "done"
    /\ \E b \in schema.tables : IsForthBack(wtable, b)
    /\ Len(wresult) = 2


(***************************************************************************)
(* TableMeta.walk_refs as a function, for the callers that use its result  *)
(* (Session._select_joins with auto_join).                                 *)
(***************************************************************************)
RECURSIVE walk_refs(_, _)
walk_refs(t, seen) ==
    LET refs == references(t)
        RECURSIVE Loop(_)
        Loop(i) ==
            IF i > Len(refs) THEN <<>>
            ELSE IF InSeen(refs[i], seen) THEN Loop(i + 1)
            ELSE LET sub == walk_refs(refs[i].table, <<refs[i].table>> \o seen)
                 IN <<<<refs[i]>>>>
                    \o [k \in 1..Len(sub) |-> <<refs[i]>> \o sub[k]]
                    \o Loop(i + 1)
    IN Loop(1)

(***************************************************************************)
(* TableMeta.join_refs.  A pypika table is modelled by its name and its    *)
(* alias ("" when it has none), a join condition by the two columns it     *)
(* equates.                                                                *)
(***************************************************************************)
\* TableMeta.__init__: self.pk_table = pypika.Table(self.name)
pk_table(t) == [name |-> schema.name[t], alias |-> ""]

\* pypika's Table.as_(alias)
as_(pk, alias) == [name |-> pk.name, alias |-> alias]

\* aliases.get(path) of a path that has no alias yet
NoAlias == [name |-> "", alias |-> ""]

\* models.py lines 121 and 125, broken: aliases are kept per target table
AliasKeyTable(path) == <<Last(path).table>>

\* lines 121 and 125: the aliases dict is keyed by the path tuple
AliasKey(path) == path

\* aliases.get(key): aliases is the dict in insertion order
AliasGet(aliases, key) ==
    IF \E i \in 1..Len(aliases) : aliases[i].key = key
    THEN aliases[CHOOSE i \in 1..Len(aliases) : aliases[i].key = key].pk
    ELSE NoAlias

\* line 120, broken: every hop is joined to the base table
JoinParentBase(t, aliases, path) == pk_table(t)

\* line 120: pk_parent = aliases[path[:-1]] if pos else self.pk_table
JoinParent(t, aliases, path) ==
    IF Len(path) > 1 THEN AliasGet(aliases, AliasKey(Front(path)))
    ELSE pk_table(t)

\* line 123: "_{}_{}".format(len(aliases) + 1, ref.table.meta.name)
AliasName(aliases, ref) ==
    "_" \o ToString(Len(aliases) + 1) \o "_" \o schema.name[ref.table]

\* lines 119-128: one round of the loop over the references of a spec; st
\* holds the joins list and the aliases dict
JoinRef(st, t, path) ==
    LET ref == Last(path)
        pk_parent == JoinParent(t, st.aliases, path)
        found == AliasGet(st.aliases, AliasKey(path))
    IN IF found # NoAlias THEN st
       ELSE LET pk_foreign == as_(pk_table(ref.table), AliasName(st.aliases, ref))
                join == [left |-> [table |-> pk_parent, column |-> ref.field],
                         right |-> [table |-> pk_foreign, column |-> ref.foreign]]
            IN [joins |-> Append(st.joins,
                                 [path |-> path, alias |-> pk_foreign, on |-> join]),
                aliases |-> Append(st.aliases,
                                   [key |-> AliasKey(path), pk |-> pk_foreign])]

\* lines 118-128: for pos, ref in enumerate(spec)
RECURSIVE JoinSpec(_, _, _, _)
JoinSpec(st, t, spec, n) ==
    IF n > Len(spec) THEN st
    ELSE JoinSpec(JoinRef(st, t, SubSeq(spec, 1, n)), t, spec, n + 1)

\* lines 112-129: the loop over the specs; the assert of line 117 ends the
\* call with an AssertionError
RECURSIVE JoinSpecs(_, _, _, _)
JoinSpecs(st, t, specs, i) ==
    IF i > Len(specs) THEN [error |-> "", joins |-> st.joins]
    ELSE IF specs[i][1].owner # t
         THEN [error |-> "AssertionError", joins |-> <<>>]
         ELSE JoinSpecs(JoinSpec(st, t, specs[i], 1), t, specs, i + 1)

join_refs(t, specs) == JoinSpecs([joins |-> <<>>, aliases |-> <<>>], t, specs, 1)

\* the call
JoinRefs ==
    /\ jpc = "call"
    /\ jresult' = join_refs(jtable, jspecs)
    /\ jpc' = "done"
    /\ UNCHANGED <<schema, jtable, jspecs, walkVars, sessVars, resVars, execVars, declVars, connVars, exprVars>>

\* the tables of test_table.py's test_ref_join: Outer with two references
\* to Mid, Mid with three to Inner; every foreign key references the field
\* "key".  The tables declare no primary key, "key" as primary key, or a
\* separate field "id" as primary key.
JoinTables == {"Outer", "Mid", "Inner"}

JoinSchema(primary) ==
    [tables |-> JoinTables,
     name |-> [t \in JoinTables |->
                  CASE t = "Outer" -> "outer" [] t = "Mid" -> "mid"
                    [] OTHER -> "inner"],
     primary |-> [t \in JoinTables |-> primary],
     refs |-> [t \in JoinTables |->
                  CASE t = "Outer" ->
                         <<Ref("mid_1", "Outer", "mid_1_key", "Mid", "key"),
                           Ref("mid_2", "Outer", "mid_2_key", "Mid", "key")>>
                    [] t = "Mid" ->
                         <<Ref("inner_1", "Mid", "inner_1_key", "Inner", "key"),
                           Ref("inner_2", "Mid", "inner_2_key", "Inner", "key"),
                           Ref("inner_3", "Mid", "inner_3_key", "Inner", "key")>>
                    [] OTHER -> <<>>]]

\* TableMeta.primary of a table that declares none
NoPrimary == ""

\* sequences of at most n elements of S
SeqUpTo(S, n) == UNION {[1..k -> S] : k \in 0..n}

InitJoin ==
    /\ \E primary \in {NoPrimary, "key", "id"} : schema = JoinSchema(primary)
    /\ jtable \in {"Outer", "Mid"}
    /\ jspecs \in SeqUpTo(Range(walk_refs(jtable, <<>>)), MaxSpecs)
    /\ jresult = <<>>
    /\ jpc = "call"
    /\ wtable = "" /\ wstack = <<>> /\ wresult = <<>> /\ wpc = "idle"
    /\ NoSession
    /\ NoExpr
    /\ NoConn
    /\ NoDecl
    /\ NoExecute
    /\ NoResult

NextJoin == JoinRefs

SpecJoin == InitJoin /\ [][NextJoin]_vars

(***************************************************************************)
(* What join_refs is to return.                                            *)
(***************************************************************************)
Prefixes(spec) == {SubSeq(spec, 1, n) : n \in 1..Len(spec)}

AllPrefixes(specs) == UNION {Prefixes(specs[i]) : i \in 1..Len(specs)}

\* every prefix of every spec, in the order the two loops meet them
RECURSIVE PrefixScan(_, _)
PrefixScan(specs, i) ==
    IF i > Len(specs) THEN <<>>
    ELSE [n \in 1..Len(specs[i]) |-> SubSeq(specs[i], 1, n)]
         \o PrefixScan(specs, i + 1)

FirstMet(scan, p) ==
    CHOOSE k \in 1..Len(scan) :
        scan[k] = p /\ \A m \in 1..(k - 1) : scan[m] # p

\* C8: join_refs emits exactly one join per distinct path prefix of the
\* specs, in first-encountered order, the k-th with alias _{k}_{target
\* table name}; no two joins share an alias and a shared prefix is joined
\* once.
C8_JoinAliases ==
    jpc = "done" =>
        LET J == jresult.joins
            scan == PrefixScan(jspecs, 1)
        IN /\ jresult.error = ""
           /\ {J[k].path : k \in 1..Len(J)} = AllPrefixes(jspecs)
           /\ \A i \in 1..Len(J) : \A j \in 1..Len(J) :
                  /\ i # j => J[i].path # J[j].path
                  /\ i # j => J[i].alias.alias # J[j].alias.alias
                  /\ i < j => FirstMet(scan, J[i].path) < FirstMet(scan, J[j].path)
           /\ \A k \in 1..Len(J) :
                  /\ J[k].alias.name = schema.name[Last(J[k].path).table]
                  /\ J[k].alias.alias =
                        "_" \o ToString(k) \o "_" \o schema.name[Last(J[k].path).table]

\* C8 witness: the call of test_ref_join: Mid reached by two foreign keys of
\* Outer, Inner reached twice under the shared prefix (Outer.mid_1,)
C8_Witness ==
    /\ jpc = "done"
    /\ Len(jspecs) = 3
    /\ Len(jspecs[1]) = 1 /\ jspecs[1][1].name = "mid_2"
    /\ Len(jspecs[2]) = 2 /\ jspecs[2][1].name = "mid_1"
    /\ Len(jspecs[3]) = 2 /\ jspecs[3][1].name = "mid_1"
    /\ jspecs[2] # jspecs[3]
    /\ Len(jresult.joins) = 4
    /\ jresult.joins[1].alias.alias = "_1_mid"
    /\ jresult.joins[2].alias.alias = "_2_mid"
    /\ jresult.joins[4].alias.alias = "_4_inner"

\* the left side of every join condition: the foreign-key column of the
\* parent, which is the base table for a first hop and else the alias of
\* the join of the path's immediate prefix, emitted earlier
JoinLeftSide(J, k) ==
    LET path == J[k].path
    IN /\ J[k].on.left.column = Last(path).field
       /\ IF Len(path) = 1
          THEN J[k].on.left.table = [name |-> schema.name[jtable], alias |-> ""]
          ELSE \E m \in 1..(k - 1) :
                  /\ J[m].path = Front(path)
                  /\ J[k].on.left.table = J[m].alias

\* C9 as stated: every join condition equates the parent's foreign-key
\* column to the primary-key column of the target alias.
C9_JoinOnPrimaryKey ==
    jpc = "done" =>
        \A k \in 1..Len(jresult.joins) :
            /\ JoinLeftSide(jresult.joins, k)
            /\ jresult.joins[k].on.right.table = jresult.joins[k].alias
            /\ jresult.joins[k].on.right.column =
                   schema.primary[Last(jresult.joins[k].path).table]

\* C9 as amended: every join condition equates the parent's foreign-key
\* column to the column of the target alias that the foreign key
\* references (field.foreign), which is the target's primary key only when
\* the foreign key references the primary key.
C9_JoinOnForeignField ==
    jpc = "done" =>
        \A k \in 1..Len(jresult.joins) :
            /\ JoinLeftSide(jresult.joins, k)
            /\ jresult.joins[k].on.right.table = jresult.joins[k].alias
            /\ jresult.joins[k].on.right.column = Last(jresult.joins[k].path).foreign

\* C9 witness: a second hop joined to its parent's alias, in a schema whose
\* foreign keys reference a field that is not the primary key
C9_Witness ==
    /\ jpc = "done"
    /\ schema.primary["Inner"] = "id"
    /\ \E k \in 1..Len(jresult.joins) :
           /\ Len(jresult.joins[k].path) = 2
           /\ jresult.joins[k].on.left.table.alias = "_1_mid"
           /\ jresult.joins[k].on.right.column = "key"

(***************************************************************************)
(* Python values.  A value is a pair of its type and its payload; None,    *)
(* ints, bools and strs are the values fields hold, "node" is a pypika     *)
(* term such as the DEFAULT keyword, "error" an exception raised by a      *)
(* conversion.                                                             *)
(***************************************************************************)
PyNone == <<"none", 0>>

PyInt(n) == <<"int", n>>

PyBool(b) == <<"bool", b>>

PyStr(s) == <<"str", s>>

PyNode(s) == <<"node", s>>

PyError(e) == <<"error", e>>

IsError(v) == v[1] = "error"

\* the decimal strings int() reads in the model
Digits == 0..9

\* Field.data_type applied to a value: int(v), bool(v) or str(v)
data_type(kind, v) ==
    CASE kind = "int" ->
           (CASE v[1] = "int" -> v
              [] v[1] = "bool" -> PyInt(IF v[2] THEN 1 ELSE 0)
              [] v[1] = "str" ->
                   (IF \E n \in Digits : ToString(n) = v[2]
                    THEN PyInt(CHOOSE n \in Digits : ToString(n) = v[2])
                    ELSE PyError("ValueError"))
              [] OTHER -> PyError("TypeError"))
      [] kind = "bool" ->
           (CASE v[1] = "int" -> PyBool(v[2] # 0)
              [] v[1] = "bool" -> v
              [] v[1] = "str" -> PyBool(v[2] # "")
              [] OTHER -> PyBool(FALSE))
      [] OTHER ->
           (CASE v[1] = "int" -> PyStr(ToString(v[2]))
              [] v[1] = "bool" -> PyStr(IF v[2] THEN "True" ELSE "False")
              [] v[1] = "str" -> v
              [] OTHER -> PyStr("None"))

(***************************************************************************)
(* Fields (models.py Field, fields.py).  A field record carries its        *)
(* attribute name, the kind of its data_type, whether its class is one of  *)
(* Nullable's, its default and the field it is foreign to.                 *)
(***************************************************************************)
DefaultNone == <<"default", "NONE">>

DefaultServer == <<"default", "SERVER">>

NoForeign == <<>>

Field(name, kind, nullable, default, foreign) ==
    [name |-> name, kind |-> kind, nullable |-> nullable, default |-> default,
     foreign |-> foreign]

\* TableMeta.fields: the fields declared on a table, by attribute name
fields(t) == schema.fields[t]

\* position of a field in TableMeta.fields
FieldIndex(t, name) == CHOOSE i \in 1..Len(fields(t)) : fields(t)[i].name = name

\* Field.decode (models.py 299-306) and Nullable._NullableField.decode
\* (fields.py 91-92)
decode(field, v) ==
    IF field.nullable /\ v = PyNone THEN PyNone
    ELSE data_type(field.kind, v)

\* Field.encode (models.py 308-317) and Nullable._NullableField.encode
\* (fields.py 94-95)
encode(field, v) ==
    IF field.nullable /\ v = PyNone THEN PyNone
    ELSE IF v[1] = "node" THEN v
    ELSE IF field.kind \in {"int", "bool"} THEN data_type(field.kind, v)
    ELSE data_type("str", v)

(***************************************************************************)
(* Instances of tables.  An instance holds its table, one decoded value    *)
(* per field (in the order of TableMeta.fields) and, for each reference    *)
(* whose BoundReference has been given a value, that value: an instance or *)
(* NoInst for None.                                                        *)
(***************************************************************************)
NoInst == [table |-> "", data |-> <<>>, binds |-> <<>>]

Inst(t, data) == [table |-> t, data |-> data, binds |-> <<>>]

\* Table.__init__ with every field given (models.py 164-175): the decoded
\* values, or the exception a conversion raised
TableInit(t, row) ==
    LET Made(data) ==
            IF \E i \in 1..Len(data) : IsError(data[i])
            THEN [error |-> data[CHOOSE i \in 1..Len(data) : IsError(data[i])][2],
                  inst |-> NoInst]
            ELSE [error |-> "", inst |-> Inst(t, data)]
    IN Made([i \in 1..Len(fields(t)) |-> decode(fields(t)[i], row[i])])

\* Field.__get__ on an instance: obj.__dict__[self.name]
FieldGet(inst, name) == inst.data[FieldIndex(inst.table, name)]

\* the value a BoundReference of the instance holds
HasBind(inst, name) == \E i \in 1..Len(inst.binds) : inst.binds[i].name = name

BindValue(inst, name) ==
    inst.binds[CHOOSE i \in 1..Len(inst.binds) : inst.binds[i].name = name].value

\* bind = getattr(target, name); bind.value = value (Reference.__get__,
\* models.py 412-417)
SetBind(inst, name, value) ==
    [inst EXCEPT !.binds =
        IF HasBind(inst, name)
        THEN [i \in 1..Len(@) |->
                 IF @[i].name = name THEN [name |-> name, value |-> value]
                 ELSE @[i]]
        ELSE Append(@, [name |-> name, value |-> value])]

(***************************************************************************)
(* The session's tables: the chain Outer -> Mid -> Inner of test_table.py  *)
(* with the fields of test_field_reference.py.  Every table has the        *)
(* server-generated integer primary key "key"; Inner.value is a BoolField  *)
(* defaulting to False; Mid.inner_key is an IntField foreign to Inner.key; *)
(* Outer.mid_key is a Nullable.IntField foreign to Mid.key.  Fields are    *)
(* listed as TableMeta lists them, by attribute name.                      *)
(***************************************************************************)
SessTables == {"Inner", "Mid", "Outer"}

\* a Collection descriptor: Collection(ref)
Coll(name, ref) == [name |-> name, ref |-> ref]

SessSchema ==
    [tables |-> SessTables,
     name |-> [t \in SessTables |->
                  CASE t = "Outer" -> "outer" [] t = "Mid" -> "mid"
                    [] OTHER -> "inner"],
     primary |-> [t \in SessTables |-> "key"],
     fields |-> [t \in SessTables |->
                  CASE t = "Outer" ->
                         <<Field("key", "int", FALSE, DefaultServer, NoForeign),
                           Field("mid_key", "int", TRUE, DefaultNone,
                                 <<"Mid", "key">>)>>
                    [] t = "Mid" ->
                         <<Field("inner_key", "int", FALSE, DefaultNone,
                                 <<"Inner", "key">>),
                           Field("key", "int", FALSE, DefaultServer, NoForeign)>>
                    [] OTHER ->
                         <<Field("key", "int", FALSE, DefaultServer, NoForeign),
                           Field("value", "bool", FALSE, PyBool(FALSE),
                                 NoForeign)>>],
     refs |-> [t \in SessTables |->
                  CASE t = "Outer" ->
                         <<Ref("mid", "Outer", "mid_key", "Mid", "key")>>
                    [] t = "Mid" ->
                         <<Ref("inner", "Mid", "inner_key", "Inner", "key")>>
                    [] OTHER -> <<>>],
     colls |-> [t \in SessTables |->
                  CASE t = "Mid" ->
                         <<Coll("outers",
                                Ref("mid", "Outer", "mid_key", "Mid", "key"))>>
                    [] t = "Inner" ->
                         <<Coll("mids",
                                Ref("inner", "Mid", "inner_key", "Inner", "key"))>>
                    [] OTHER -> <<>>]]

\* TableMeta.primary
primary(t) == schema.primary[t]

(***************************************************************************)
(* Dialects (dialects.py) and the drivers behind them.  SQLite has no      *)
(* DEFAULT keyword, keeps booleans as integers and reports the generated   *)
(* key as lastrowid; PostgreSQL has the keyword, keeps booleans and its    *)
(* cursor has no lastrowid.                                                *)
(***************************************************************************)
Dialects == {"sqlite", "postgresql"}

\* Dialect.server_default: None for SQLiteDialect
server_default(d) == IF d = "sqlite" THEN PyNone ELSE PyNode("DEFAULT")

\* the value a column holds, and a cursor returns, for a literal of a query
DbStore(d, v) ==
    IF v[1] = "bool" /\ d = "sqlite" THEN PyInt(IF v[2] THEN 1 ELSE 0) ELSE v

\* cursor.lastrowid after an INSERT that generated the key k
lastrowid(d, k) == IF d = "sqlite" THEN PyInt(k) ELSE PyNone

(***************************************************************************)
(* Expressions (models.py _Term, Expr).  A where clause is the conjunction *)
(* of its atoms; None is the empty conjunction.                            *)
(***************************************************************************)
NoWhere == <<>>

\* Expr.__init__ (models.py 328-343) with one Field among the arguments: a
\* str argument is passed on as it is, any other value is encoded
ExprArg(field, v) == IF v[1] \in {"str", "node"} THEN v ELSE encode(field, v)

\* _Term.__eq__ (models.py 200-207) on the field f of table t
FieldEq(t, f, v) ==
    IF v = PyNone
    THEN <<[op |-> "isnull", table |-> pk_table(t), column |-> f.name,
            value |-> PyNone]>>
    ELSE <<[op |-> "eq", table |-> pk_table(t), column |-> f.name,
            value |-> ExprArg(f, v)]>>

\* Expr.__and__ (models.py 359-363)
And(a, b) == a \o b

\* the field of a table by name: getattr(Table, name)
FieldOf(t, name) == fields(t)[FieldIndex(t, name)]

(***************************************************************************)
(* The database behind the connection: what the SQL the queries build      *)
(* does to the rows, and what the cursor then returns.                     *)
(***************************************************************************)
\* INSERT INTO t (cols) VALUES (vals): a column left out, or given DEFAULT,
\* takes the next key when it is the primary key, else the column default
\* of CREATE TABLE (queries.py 284-293), else NULL
DbInsert(t, cols, vals) ==
    LET key == serial[t] + 1
        given(f) == \E j \in 1..Len(cols) :
                       cols[j] = f.name /\ vals[j] # PyNode("DEFAULT")
        stored == [i \in 1..Len(fields(t)) |->
                     LET f == fields(t)[i]
                     IN IF given(f)
                        THEN DbStore(dialect,
                                 vals[CHOOSE j \in 1..Len(cols) : cols[j] = f.name])
                        ELSE IF f.name = primary(t) THEN PyInt(key)
                        ELSE IF f.default[1] # "default"
                             THEN DbStore(dialect, f.default)
                        ELSE PyNone]
    IN [row |-> stored, key |-> key]

\* one atom of a WHERE clause on a row of the FROM table
EvalAtom(t, atom, row) ==
    LET col == row[FieldIndex(t, atom.column)]
    IN IF atom.op = "isnull" THEN col = PyNone
       ELSE col # PyNone /\ col = DbStore(dialect, atom.value)

\* the rows of the FROM table the WHERE clause keeps, in stored order
Matching(t, where) ==
    SelectSeq(db[t], LAMBDA r : \A i \in 1..Len(where) : EvalAtom(t, where[i], r))

\* the row a table reference of a join condition stands for: the FROM
\* table's, or the one an earlier join matched (<<>> when it matched none)
EnvRow(env, pk) ==
    env[CHOOSE i \in 1..Len(env) : env[i].pk = pk]

\* LEFT OUTER JOIN ... ON left = right, join after join; env holds, for the
\* FROM table and every join so far, the row it contributes
RECURSIVE JoinScan(_, _, _)
JoinScan(joins, k, env) ==
    IF k > Len(joins) THEN env
    ELSE LET j == joins[k]
             target == Last(j.path).table
             left == EnvRow(env, j.on.left.table)
             lv == IF left.row = <<>> THEN PyNone
                   ELSE left.row[FieldIndex(left.table, j.on.left.column)]
             found == SelectSeq(db[target],
                          LAMBDA r : lv # PyNone /\
                              r[FieldIndex(target, j.on.right.column)] = lv)
             row == IF found = <<>> THEN <<>> ELSE found[1]
         IN JoinScan(joins, k + 1,
                     Append(env, [pk |-> j.alias, table |-> target, row |-> row]))

\* the columns one entry of env contributes to the SELECT list
Slice(e) ==
    IF e.row = <<>> THEN [i \in 1..Len(fields(e.table)) |-> PyNone] ELSE e.row

RECURSIVE Flatten(_, _)
Flatten(env, k) ==
    IF k > Len(env) THEN <<>> ELSE Slice(env[k]) \o Flatten(env, k + 1)

Limited(rows, limit) ==
    IF limit > 0 /\ Len(rows) > limit THEN SubSeq(rows, 1, limit) ELSE rows

\* _SelectQuery._pk_query (queries.py 334-351) run by the database: the rows
\* the cursor will return; limit 0 stands for no LIMIT
DbSelect(t, where, joins, limit) ==
    LET base == Limited(Matching(t, where), limit)
    IN [i \in 1..Len(base) |->
           Flatten(JoinScan(joins, 1,
                       <<[pk |-> pk_table(t), table |-> t, row |-> base[i]]>>), 1)]

(***************************************************************************)
(* The materializer (queries.py _SelectQueryResult).                       *)
(***************************************************************************)
\* _unpack (queries.py 192-201): the instance of table t built from the
\* slice of the row at offset, or None for a joined slice of nulls
_unpack(t, row, offset) ==
    LET size == Len(fields(t))
        Sized(made) == [error |-> made.error, inst |-> made.inst, size |-> size]
        Unpack(slice) ==
            IF offset # 0 /\ \A i \in 1..size : slice[i] = PyNone
            THEN [error |-> "", inst |-> NoInst, size |-> size]
            ELSE Sized(TableInit(t, slice))
    IN Unpack(SubSeq(row, offset + 1, offset + size))

\* what the variable target of _transform holds: the instance final, or a
\* plain value read from one of its fields
InstObj(inst) == [isinst |-> TRUE, inst |-> inst, val |-> PyNone]

ValObj(v) == [isinst |-> FALSE, inst |-> NoInst, val |-> v]

IsNone(o) == ~o.isinst /\ o.val = PyNone

HasField(t, name) == \E i \in 1..Len(fields(t)) : fields(t)[i].name = name

HasRef(t, name) == \E i \in 1..Len(references(t)) : references(t)[i].name = name

\* getattr(target, name) with the name of a field: Field.__get__ (models.py
\* 291-294) on an instance; an int, bool or str has no such attribute
getattr(o, name) ==
    IF o.isinst /\ HasField(o.inst.table, name)
    THEN [error |-> "", obj |-> ValObj(FieldGet(o.inst, name))]
    ELSE [error |-> "AttributeError", obj |-> ValObj(PyNone)]

\* queries.py 210-213: for ref in path[:-1]: target = getattr(target,
\* ref.field.name), leaving the loop when target is None
RECURSIVE WalkPrefix(_, _, _)
WalkPrefix(o, path, k) ==
    LET Step(g) == IF g.error # "" \/ IsNone(g.obj) THEN g
                   ELSE WalkPrefix(g.obj, path, k + 1)
    IN IF k > Len(path) - 1 THEN [error |-> "", obj |-> o]
       ELSE Step(getattr(o, path[k].field))

\* queries.py 205-216: the loop of _transform over the joins; final is the
\* instance of the FROM table, pos the offset of the next slice
RECURSIVE TransformJoins(_, _, _, _, _)
TransformJoins(joins, k, row, final, pos) ==
    LET Attach(path, u, w) ==
            IF u.error # "" THEN [error |-> u.error, inst |-> NoInst]
            ELSE IF w.error # "" THEN [error |-> w.error, inst |-> NoInst]
            ELSE IF IsNone(w.obj)
                 THEN TransformJoins(joins, k + 1, row, final, pos + u.size)
            ELSE IF ~(w.obj.isinst /\ HasRef(w.obj.inst.table, Last(path).name))
                 THEN [error |-> "AttributeError", inst |-> NoInst]
            ELSE TransformJoins(joins, k + 1, row,
                                SetBind(final, Last(path).name, u.inst),
                                pos + u.size)
    IN IF k > Len(joins) THEN [error |-> "", inst |-> final]
       ELSE Attach(joins[k].path,
                   _unpack(Last(joins[k].path).table, row, pos),
                   WalkPrefix(InstObj(final), joins[k].path, 1))

\* _transform (queries.py 203-217)
_transform(t, joins, row) ==
    LET Joined(u) == IF u.error # "" THEN [error |-> u.error, inst |-> NoInst]
                     ELSE TransformJoins(joins, 1, row, u.inst, u.size)
    IN Joined(_unpack(t, row, 0))

(***************************************************************************)
(* Result objects (queries.py _CommonQueryResult, _QueryResult,            *)
(* _AsyncQueryResult).  cursor holds the rows fetchone() has yet to        *)
(* return.                                                                 *)
(***************************************************************************)
Result(t, joins, rows) ==
    [table |-> t, joins |-> joins, cursor |-> rows, buffer |-> <<>>,
     iterating |-> FALSE, done |-> FALSE]

\* __next__ and __anext__ (queries.py 63-75, 99-102, 135-141): the result
\* object afterwards, the exception raised if any, the item returned
__next__(res) ==
    LET After(r, made) ==
            IF made.error # ""
            THEN [res |-> r, raised |-> made.error, item |-> NoInst]
            ELSE [res |-> [r EXCEPT !.buffer = Append(@, made.inst)],
                  raised |-> "", item |-> made.inst]
    IN IF res.cursor = <<>>
       THEN [res |-> [res EXCEPT !.iterating = FALSE, !.done = TRUE],
             raised |-> "StopIteration", item |-> NoInst]
       ELSE After([res EXCEPT !.iterating = TRUE, !.cursor = Tail(@)],
                  _transform(res.table, res.joins, Head(res.cursor)))

\* calls of __next__ until one raises
RECURSIVE Exhaust(_)
Exhaust(res) ==
    LET Again(n) == IF n.raised # "" THEN [res |-> n.res, raised |-> n.raised]
                    ELSE Exhaust(n.res)
    IN Again(__next__(res))

\* _QueryResult.__len__ (queries.py 113-123)
__len__(res) ==
    LET Forced(e) ==
            [res |-> e.res,
             raised |-> IF e.raised = "StopIteration" THEN "" ELSE e.raised]
    IN IF res.done THEN [res |-> res, raised |-> ""]
       ELSE IF res.iterating THEN [res |-> res, raised |-> "RuntimeError"]
       ELSE Forced(Exhaust(res))

\* _iter (queries.py 55-61): the iterator handed out is the buffer's once
\* the result is done, else the result itself
_iter(res) ==
    IF res.iterating THEN [raised |-> "RuntimeError", over |-> "self"]
    ELSE IF res.done THEN [raised |-> "", over |-> "buffer"]
    ELSE [raised |-> "", over |-> "self"]

\* the items an iterator yields until it is exhausted
Iterate(res, over) ==
    LET Yielded(e) ==
            [res |-> e.res,
             raised |-> IF e.raised = "StopIteration" THEN "" ELSE e.raised,
             items |-> SubSeq(e.res.buffer, Len(res.buffer) + 1,
                              Len(e.res.buffer))]
    IN IF over = "buffer"
       THEN [res |-> res, raised |-> "", items |-> res.buffer]
       ELSE Yielded(Exhaust(res))

\* "for x in result" and "async for x in result": iter(), then next() to
\* the end
PyFor(res) ==
    IF _iter(res).raised # ""
    THEN [res |-> res, raised |-> _iter(res).raised, items |-> <<>>]
    ELSE Iterate(res, _iter(res).over)

\* list(result): iter(), then len() for the length hint, then next() to
\* the end
PyList(res) ==
    LET Filled(hint) ==
            IF hint.raised # ""
            THEN [res |-> hint.res, raised |-> hint.raised, items |-> <<>>]
            ELSE Iterate(hint.res, _iter(res).over)
    IN IF _iter(res).raised # ""
       THEN [res |-> res, raised |-> _iter(res).raised, items |-> <<>>]
       ELSE Filled(__len__(res))

\* next(result), broken: no default, the StopIteration of an exhausted
\* result reaches the caller
PyNextNoDefault(res) ==
    LET Got(n) == [res |-> n.res, raised |-> n.raised,
                   items |-> IF n.raised = "" THEN <<n.item>> ELSE <<>>]
    IN Got(__next__(res))

\* next(result, None), and the first round of "async for": the first item,
\* or nothing
PyNext(res) ==
    LET Got(n) == [res |-> n.res,
                   raised |-> IF n.raised = "StopIteration" THEN ""
                              ELSE n.raised,
                   items |-> IF n.raised = "" THEN <<n.item>> ELSE <<>>]
    IN Got(__next__(res))

(***************************************************************************)
(* The session operations (session.py).                                    *)
(***************************************************************************)
\* rows the model lets a database hold, over all its tables
MaxRows == 3

\* the largest key a caller names, in a foreign key value or a predicate
MaxKey == 2

\* the keys a caller names
Keys == 1..MaxKey

\* an instance passed where a foreign key value is expected
PyInst(inst) == <<"inst", inst>>

NoOut ==
    [op |-> "", sync |-> TRUE, table |-> "", where |-> NoWhere, joins |-> <<>>,
     auto_join |-> FALSE, arg |-> <<>>, kind |-> "", msg |-> "", value |-> <<>>]

Out(op, sync, t, where, joins, auto_join, arg, kind, msg, value) ==
    [op |-> op, sync |-> sync, table |-> t, where |-> where, joins |-> joins,
     auto_join |-> auto_join, arg |-> arg, kind |-> kind, msg |-> msg,
     value |-> value]

\* _create_value (session.py 139-157): the value to insert for a field, an
\* exception, or the _OmitValue that leaves the column out
_create_value(field, value) ==
    LET v == IF value # PyNone \/ field.nullable THEN value
             ELSE IF field.default = DefaultNone THEN PyError("KeyError")
             ELSE IF field.default = DefaultServer
                  THEN IF server_default(dialect) # PyNone
                       THEN server_default(dialect)
                       ELSE PyError("_OmitValue")
             ELSE field.default
    IN IF v[1] # "inst" THEN v
       ELSE IF field.foreign = NoForeign \/ v[2].table # field.foreign[1]
            THEN PyError("AssertionError")
       ELSE FieldGet(v[2], field.foreign[2])

\* _create_fields (session.py 159-171): data maps each field name to the
\* keyword argument given for it, None when there is none
RECURSIVE CreateFields(_, _, _, _)
CreateFields(t, data, i, st) ==
    IF i > Len(fields(t)) THEN st
    ELSE LET field == fields(t)[i]
             v == _create_value(field, data[field.name])
         IN IF v = PyError("_OmitValue") THEN CreateFields(t, data, i + 1, st)
            ELSE IF IsError(v) THEN [raised |-> v[2], cols |-> <<>>, row |-> <<>>]
            ELSE CreateFields(t, data, i + 1,
                     [raised |-> "", cols |-> Append(st.cols, field.name),
                      row |-> Append(st.row, v)])

_create_fields(t, data) ==
    CreateFields(t, data, 1, [raised |-> "", cols |-> <<>>, row |-> <<>>])

\* _InsertQuery._pk_query (queries.py 395-400): the encoded row
InsertValues(t, cols, row) ==
    [j \in 1..Len(cols) |-> encode(FieldOf(t, cols[j]), row[j])]

\* _InsertQuery._get_row (queries.py 408-410)
_get_row(last) == IF last = PyNone \/ last = PyInt(-1) THEN PyNone ELSE last

\* the keyword arguments a caller may pass to create(): nothing for the
\* server-generated key, a bool or nothing for a BoolField, a key, an
\* instance of the referenced table or nothing for a foreign key
Instances(t) == {TableInit(t, db[t][i]).inst : i \in 1..Len(db[t])}

CreateArgs(t, f) ==
    IF f.name = primary(t) THEN {PyNone}
    ELSE IF f.kind = "bool" THEN {PyNone, PyBool(TRUE), PyBool(FALSE)}
    ELSE {PyNone} \cup {PyInt(k) : k \in Keys}
         \cup {PyInst(inst) : inst \in Instances(f.foreign[1])}

FieldNames(t) == {fields(t)[i].name : i \in 1..Len(fields(t))}

TotalRows == Len(db["Inner"]) + Len(db["Mid"]) + Len(db["Outer"])

\* The model follows a script that creates rows and ends with one more
\* call: the calls after the creates read the database and leave it as it
\* is, and an exception ends the script.
Running == out.op \in {"", "create"} /\ out.kind \in {"", "ok"}

\* Session.create and AsyncSession.create (session.py 289-293, 388-392);
\* the record of the call keeps the row of values that was inserted and
\* the key the call returned
Create ==
    /\ Running
    /\ TotalRows < MaxRows
    /\ \E t \in SessTables :
       \E data \in [FieldNames(t) -> UNION {CreateArgs(t, FieldOf(t, n)) :
                                              n \in FieldNames(t)}] :
          /\ \A n \in FieldNames(t) : data[n] \in CreateArgs(t, FieldOf(t, n))
          /\ LET cf == _create_fields(t, data)
                 ins == DbInsert(t, cf.cols, InsertValues(t, cf.cols, cf.row))
                 key == _get_row(lastrowid(dialect, ins.key))
                 given(n) == \E j \in 1..Len(cf.cols) :
                                cf.cols[j] = n /\ cf.row[j] # PyNode("DEFAULT")
                 logical == [i \in 1..Len(fields(t)) |->
                               IF given(fields(t)[i].name)
                               THEN cf.row[CHOOSE j \in 1..Len(cf.cols) :
                                              cf.cols[j] = fields(t)[i].name]
                               ELSE PyInt(ins.key)]
             IN IF cf.raised # ""
                THEN /\ out' = Out("create", TRUE, t, NoWhere, <<>>, FALSE, <<>>,
                                   cf.raised, "", <<>>)
                     /\ UNCHANGED <<db, serial>>
                ELSE /\ db' = [db EXCEPT ![t] = Append(@, ins.row)]
                     /\ serial' = [serial EXCEPT ![t] = ins.key]
                     /\ out' = Out("create", TRUE, t, NoWhere, <<>>, FALSE,
                                   <<logical>>, "ok", "", <<key>>)
    /\ UNCHANGED <<schema, dialect, walkVars, joinVars, resVars, execVars, declVars, connVars, exprVars>>

\* _select_joins, broken: a path that does not start on the table is
\* dropped
SelectJoinsOwned(t, joins, auto_join) ==
    IF auto_join THEN walk_refs(t, <<>>)
    ELSE SelectSeq(joins, LAMBDA spec : spec[1].owner = t)

\* _select_joins (session.py 53-54): with auto_join the paths of walk_refs
\* take the place of the paths given
_select_joins(t, joins, auto_join) ==
    IF auto_join THEN walk_refs(t, <<>>) ELSE joins

\* _select_ref (session.py 65), broken: a caller's predicate replaces the
\* injected equality
SelectRefWhereOnly(relate, where) == IF where # NoWhere THEN where ELSE relate

\* _select_ref (session.py 65): where = relate & where if where else relate
SelectRefWhere(relate, where) ==
    IF where # NoWhere THEN And(relate, where) ELSE relate

\* _select_ref (session.py 56-67) for a BoundCollection of coll on inst:
\* the table to select from and the where clause
_select_ref(coll, inst, where) ==
    LET relate == FieldEq(coll.ref.owner, FieldOf(coll.ref.owner, coll.ref.field),
                          FieldGet(inst, coll.ref.foreign))
    IN [table |-> coll.ref.owner, where |-> SelectRefWhere(relate, where)]

\* _SelectQuery.__init__ and SelectQuery.execute (queries.py 324-332,
\* 369-371, 376-378): the result object over the rows the cursor holds
SelectQuery(t, where, joins, limit) ==
    LET Executed(j) ==
            IF j.error # ""
            THEN [raised |-> j.error, res |-> Result(t, <<>>, <<>>)]
            ELSE [raised |-> "",
                  res |-> Result(t, j.joins, DbSelect(t, where, j.joins, limit))]
    IN Executed(join_refs(t, joins))

\* _get_one (session.py 78-84)
Kind(r) == IF r.raised = "" THEN "ok" ELSE r.raised

\* the record of a call c and of what it returned or raised
Returned(op, c, where, joins, arg, r) ==
    Out(op, c.sync, c.table, where, joins, c.auto_join, arg, Kind(r), r.msg,
        r.value)

\* _get_one (session.py 78-84)
_get_one(results) ==
    IF Len(results) = 0
    THEN [raised |-> "LookupError", msg |-> "none found", value |-> <<>>]
    ELSE IF Len(results) > 1
         THEN [raised |-> "LookupError", msg |-> "multiple found", value |-> <<>>]
    ELSE [raised |-> "", msg |-> "", value |-> <<results[1]>>]

\* Session.get (session.py 255-262) builds the list with list(),
\* AsyncSession.get (session.py 347-354) with an async comprehension
get(sync, t, where, joins, auto_join) ==
    LET One(results) ==
            IF results.raised # ""
            THEN [raised |-> results.raised, msg |-> "", value |-> <<>>]
            ELSE _get_one(results.items)
        Listed(q) ==
            IF q.raised # "" THEN [raised |-> q.raised, msg |-> "", value |-> <<>>]
            ELSE IF sync THEN One(PyList(q.res))
            ELSE One(PyFor(q.res))
    IN Listed(SelectQuery(t, where, _select_joins(t, joins, auto_join), 2))

\* Session.first (session.py 264-271) and AsyncSession.first (session.py
\* 356-366): the first item of the result, or None
first(sync, t, where, joins, auto_join) ==
    LET Item(results) ==
            [raised |-> results.raised, msg |-> "", value |-> results.items]
        Next(q) ==
            IF q.raised # "" THEN [raised |-> q.raised, msg |-> "", value |-> <<>>]
            ELSE Item(PyNext(q.res))
    IN Next(SelectQuery(t, where, _select_joins(t, joins, auto_join), 1))

\* Session.select and AsyncSession.select (session.py 246-253, 338-345),
\* the result then read to its end by a for loop
select(sync, t, where, joins, auto_join) ==
    LET Items(results) ==
            [raised |-> results.raised, msg |-> "", value |-> results.items]
        Read(q) ==
            IF q.raised # "" THEN [raised |-> q.raised, msg |-> "", value |-> <<>>]
            ELSE Items(PyFor(q.res))
    IN Read(SelectQuery(t, where, _select_joins(t, joins, auto_join), 0))

\* the predicates a caller passes: none, the primary key equal to a key,
\* or one more field equal to a value (None for the nullable one)
Wheres(t) ==
    {NoWhere} \cup {FieldEq(t, FieldOf(t, primary(t)), PyInt(k)) : k \in Keys}
    \cup (CASE t = "Inner" -> {FieldEq(t, FieldOf(t, "value"), PyBool(TRUE))}
            [] t = "Mid" -> {FieldEq(t, FieldOf(t, "inner_key"), PyInt(1))}
            [] OTHER -> {FieldEq(t, FieldOf(t, "mid_key"), PyNone)})

\* the joins a caller passes: none, or one of the paths walk_refs lists
JoinChoices(t) == {<<>>} \cup {<<p>> : p \in Range(walk_refs(t, <<>>))}

\* the calls of the model: by a sync or an async session, on a table,
\* with or without auto_join
Calls == [sync : BOOLEAN, table : SessTables, auto_join : BOOLEAN]

Get ==
    /\ Running
    /\ \E c \in Calls : \E where \in Wheres(c.table) :
       \E joins \in (IF c.auto_join THEN {<<>>} ELSE JoinChoices(c.table)) :
          out' = Returned("get", c, where, joins, <<>>,
                          get(c.sync, c.table, where, joins, c.auto_join))
    /\ UNCHANGED <<schema, dialect, db, serial, walkVars, joinVars, resVars, execVars, declVars, connVars, exprVars>>

First ==
    /\ Running
    /\ \E c \in Calls : \E where \in Wheres(c.table) :
       \E joins \in (IF c.auto_join THEN {<<>>} ELSE JoinChoices(c.table)) :
          out' = Returned("first", c, where, joins, <<>>,
                          first(c.sync, c.table, where, joins, c.auto_join))
    /\ UNCHANGED <<schema, dialect, db, serial, walkVars, joinVars, resVars, execVars, declVars, connVars, exprVars>>

Select ==
    /\ Running
    /\ \E c \in Calls : \E where \in Wheres(c.table) :
       \E joins \in (IF c.auto_join THEN {<<>>} ELSE JoinChoices(c.table)) :
          out' = Returned("select", c, where, joins, <<>>,
                          select(c.sync, c.table, where, joins, c.auto_join))
    /\ UNCHANGED <<schema, dialect, db, serial, walkVars, joinVars, resVars, execVars, declVars, connVars, exprVars>>

\* the Collection descriptors of the schema
Collections == UNION {Range(schema.colls[t]) : t \in SessTables}

\* select() on the BoundCollection of an instance read from the database
SelectCollection ==
    /\ Running
    /\ \E sync \in BOOLEAN : \E coll \in Collections :
       \E inst \in Instances(coll.ref.table) :
       \E where \in Wheres(coll.ref.owner) :
          LET sr == _select_ref(coll, inst, where)
          IN out' = Returned("select_coll",
                             [sync |-> sync, table |-> sr.table,
                              auto_join |-> FALSE],
                             where, <<>>, <<inst>>,
                             select(sync, sr.table, sr.where, <<>>, FALSE))
    /\ UNCHANGED <<schema, dialect, db, serial, walkVars, joinVars, resVars, execVars, declVars, connVars, exprVars>>

InitSession ==
    /\ schema = SessSchema
    /\ dialect \in Dialects
    /\ db = [t \in SessTables |-> <<>>]
    /\ serial = [t \in SessTables |-> 0]
    /\ out = NoOut
    /\ NoResult
    /\ NoExecute
    /\ NoExpr
    /\ NoDecl
    /\ NoConn
    /\ wtable = "" /\ wstack = <<>> /\ wresult = <<>> /\ wpc = "idle"
    /\ jtable = "" /\ jspecs = <<>> /\ jresult = <<>> /\ jpc = "idle"

NextSession == Create \/ Get \/ First \/ Select \/ SelectCollection

SpecSession == InitSession /\ [][NextSession]_vars

(***************************************************************************)
(* What the calls of a session are expected to return, read off the rows   *)
(* of the database.                                                        *)
(***************************************************************************)
\* the value a field of an instance is expected to hold for a stored value
LogicalValue(f, v) ==
    IF v = PyNone THEN PyNone
    ELSE IF f.kind = "bool" /\ v[1] = "int" THEN PyBool(v[2] = 1)
    ELSE v

LogicalRow(t, row) ==
    [i \in 1..Len(fields(t)) |-> LogicalValue(fields(t)[i], row[i])]

\* the joins a recorded call asked for
OutJoins == IF out.auto_join THEN walk_refs(out.table, <<>>) ELSE out.joins

\* the recorded call passed no joins
NoJoins == out.joins = <<>> /\ ~out.auto_join

\* the rows of its table the recorded call matches
OutMatching == Matching(out.table, out.where)

\* the row of table t whose field named column holds v, <<>> if none does
RowWith(t, column, v) ==
    IF \E i \in 1..Len(db[t]) : db[t][i][FieldIndex(t, column)] = v
    THEN db[t][CHOOSE i \in 1..Len(db[t]) : db[t][i][FieldIndex(t, column)] = v]
    ELSE <<>>

\* the row a reference of a row leads to
RefRow(ref, row) ==
    IF row = <<>> \/ row[FieldIndex(ref.owner, ref.field)] = PyNone THEN <<>>
    ELSE RowWith(ref.table, ref.foreign, row[FieldIndex(ref.owner, ref.field)])

\* C1: create(T, ...) followed by get(T, primary == returned key) returns
\* an instance whose every field equals the value inserted: None reads
\* back as None, a concrete value reads back unchanged.
C1_CreateGetRoundTrip ==
    [][(/\ out.op = "create" /\ out.kind = "ok" /\ out.value # <<PyNone>>
        /\ out'.op = "get" /\ out'.joins = <<>> /\ ~out'.auto_join
        /\ out'.table = out.table
        /\ out'.where = FieldEq(out.table,
                                FieldOf(out.table, primary(out.table)),
                                out.value[1]))
       => (/\ out'.kind = "ok"
           /\ Len(out'.value) = 1
           /\ out'.value[1].table = out.table
           /\ out'.value[1].data = out.arg[1])]_vars

\* C2: get(T, predicate) returns the matching row when exactly one row
\* matches and raises a lookup error when none or more than one matches, in
\* the sync and in the async session.
C2_GetOneOrRaise ==
    (out.op = "get" /\ NoJoins)
    => IF Len(OutMatching) = 1
       THEN /\ out.kind = "ok"
            /\ Len(out.value) = 1
            /\ out.value[1].table = out.table
            /\ out.value[1].data = LogicalRow(out.table, OutMatching[1])
       ELSE out.kind = "LookupError"

\* C3: first(T, predicate) returns None when no row matches and otherwise
\* the first matching row in result order; it never raises a lookup error,
\* however many rows match.
C3_FirstOrNone ==
    /\ out.op = "first" => out.kind # "LookupError"
    /\ (out.op = "first" /\ NoJoins)
       => /\ out.kind = "ok"
          /\ IF Len(OutMatching) = 0 THEN out.value = <<>>
             ELSE /\ Len(out.value) = 1
                  /\ out.value[1].table = out.table
                  /\ out.value[1].data = LogicalRow(out.table, OutMatching[1])

\* first was called, in the sync and the async way alike, with a predicate
\* that two rows or more match, and returned the first of them
C3_Witness ==
    /\ out.op = "first" /\ NoJoins /\ out.where # NoWhere
    /\ Len(OutMatching) >= 2
    /\ OutMatching[1] # OutMatching[2]
    /\ out.kind = "ok"
    /\ Len(out.value) = 1
    /\ out.value[1].data = LogicalRow(out.table, OutMatching[1])

\* the paths join_refs makes joins for, in the order of the joins
JoinPaths ==
    LET joins == join_refs(out.table, OutJoins).joins
    IN [k \in 1..Len(joins) |-> joins[k].path]

\* the row the references of a path lead to from a row, <<>> once a
\* reference leads nowhere
RECURSIVE RowAt(_, _, _)
RowAt(row, path, k) ==
    IF k > Len(path) THEN row ELSE RowAt(RefRow(path[k], row), path, k + 1)

\* the instance the bindings of a path lead to from an instance, NoInst
\* once a binding is missing or holds None
RECURSIVE InstAt(_, _, _)
InstAt(inst, path, k) ==
    IF k > Len(path) THEN inst
    ELSE IF inst = NoInst \/ ~HasBind(inst, path[k].name) THEN NoInst
    ELSE InstAt(BindValue(inst, path[k].name), path, k + 1)

\* the instance a select with joins is expected to return for a row: the
\* fields of the row and, under each joined reference, the instance of the
\* row it leads to (None when it leads to none) with its own joined
\* references
RECURSIVE Expected(_, _, _)
Expected(t, row, paths) ==
    LET heads == SelectSeq(paths, LAMBDA p : Len(p) = 1)
        tails(ref) == LET longer == SelectSeq(paths,
                                       LAMBDA p : Len(p) > 1 /\ p[1] = ref)
                      IN [k \in 1..Len(longer) |-> Tail(longer[k])]
    IN [table |-> t,
        data |-> LogicalRow(t, row),
        binds |-> [k \in 1..Len(heads) |->
                     [name |-> heads[k][1].name,
                      value |-> IF RefRow(heads[k][1], row) = <<>> THEN NoInst
                                ELSE Expected(heads[k][1].table,
                                              RefRow(heads[k][1], row),
                                              tails(heads[k][1]))]]]

\* C4: materializing a SELECT row raises no error; a join whose slice holds
\* only nulls leaves the reference binding None, every other join binds an
\* instance of the target table built from exactly its slice.
C4_NullSliceAbsent ==
    (out.op = "select" /\ OutJoins # <<>>)
    => /\ out.kind = "ok"
       /\ Len(out.value) = Len(OutMatching)
       /\ \A i \in 1..Len(OutMatching) :
             out.value[i] = Expected(out.table, OutMatching[i], JoinPaths)

\* C5: for a join path longer than one reference whose parent row is
\* present, materializing completes without error and binds the instance
\* of the last hop (None when its slice is null) under the parent instance
\* materialized for the path's prefix.
C5_NestedAttach ==
    out.op = "select"
    => \A i \in 1..Len(OutMatching) : \A p \in Range(JoinPaths) :
          (Len(p) > 1 /\ RowAt(OutMatching[i], Front(p), 1) # <<>>)
          => /\ out.kind = "ok"
             /\ i <= Len(out.value)
             /\ HasBind(InstAt(out.value[i], Front(p), 1), Last(p).name)
             /\ LET child == RowAt(OutMatching[i], p, 1)
                    bound == InstAt(out.value[i], p, 1)
                IN IF child = <<>> THEN bound = NoInst
                   ELSE /\ bound.table = Last(p).table
                        /\ bound.data = LogicalRow(Last(p).table, child)

\* the reference behind the collection the recorded select was made on
OutCollRef ==
    (CHOOSE coll \in Collections :
        coll.ref.owner = out.table /\ coll.ref.table = out.arg[1].table).ref

\* C10: select on a bound Collection of an instance returns exactly the
\* rows of the referencing table whose foreign key equals the instance's
\* referenced key and that satisfy the caller's predicate, if one is given.
C10_CollectionSelect ==
    out.op = "select_coll"
    => LET related == SelectSeq(db[out.table],
               LAMBDA r :
                  /\ r[FieldIndex(out.table, OutCollRef.field)]
                        = FieldGet(out.arg[1], OutCollRef.foreign)
                  /\ \A k \in 1..Len(out.where) :
                        EvalAtom(out.table, out.where[k], r))
       IN /\ out.kind = "ok"
          /\ Len(out.value) = Len(related)
          /\ \A i \in 1..Len(related) :
                /\ out.value[i].table = out.table
                /\ out.value[i].data = LogicalRow(out.table, related[i])

\* a select on a collection with a predicate of the caller returned one of
\* two rows of the referencing table
C10_Witness ==
    /\ out.op = "select_coll" /\ out.where # NoWhere
    /\ out.kind = "ok"
    /\ Len(out.value) = 1
    /\ Len(db[out.table]) = 2
    /\ out.value[1].data \in {LogicalRow(out.table, db[out.table][i]) : i \in 1..2}

(***************************************************************************)
(* The consumers of one result object (queries.py _CommonQueryResult,      *)
(* _QueryResult, _AsyncQueryResult).  A consumer starts an iteration with  *)
(* iter() or aiter(), then calls next() or anext() on the iterator it was  *)
(* handed until that raises; list() does both in one call.  The result of  *)
(* the blocking strategy runs each call to its end; __anext__ of the       *)
(* suspending strategy awaits fetchone() between _next_before and          *)
(* _next_after, and another consumer may run in between.                   *)
(***************************************************************************)
\* rows the cursor of the consumed result holds
MaxFetch == 2

\* iterations one consumer starts
MaxIters == 2

\* the two consumers of the result object
Consumers == {1, 2}

\* the rows of table Inner the cursor returns: (key, value) as SQLite
\* stores them
FetchRows(n) == [i \in 1..n |-> <<PyInt(i), PyInt(i % 2)>>]

\* a consumer that has not started an iteration
NoConsumer ==
    [pc |-> "idle", over |-> "", pos |-> 0, items |-> <<>>, row |-> <<>>,
     late |-> FALSE, fetched |-> 0, iters |-> 0]

\* _next_before (queries.py 63-65)
_next_before(r) == [r EXCEPT !.iterating = TRUE]

\* cursor.fetchone(): the next row, or None (here <<>>) at the end
fetchone(r) ==
    IF r.cursor = <<>> THEN [res |-> r, row |-> <<>>]
    ELSE [res |-> [r EXCEPT !.cursor = Tail(@)], row |-> <<Head(r.cursor)>>]

\* _next_after (queries.py 67-75)
_next_after(r, row) ==
    LET After(made) ==
            IF made.error # ""
            THEN [res |-> r, raised |-> made.error, item |-> NoInst]
            ELSE [res |-> [r EXCEPT !.buffer = Append(@, made.inst)],
                  raised |-> "", item |-> made.inst]
    IN IF row = <<>>
       THEN [res |-> [r EXCEPT !.iterating = FALSE, !.done = TRUE],
             raised |-> "StopIteration", item |-> NoInst]
       ELSE After(_transform(r.table, r.joins, row[1]))

\* the consumer holds an iterator that reads the cursor
InFlight(d) == cons[d].pc \in {"next", "wait"} /\ cons[d].over = "self"

\* the second consumer acts only once the first has started
MayStart(c) ==
    /\ cons[c].pc = "idle"
    /\ cons[c].iters < MaxIters
    /\ c = 2 => cons[1].iters > 0

\* the consumer's iteration has ended: what it yielded is recorded, and, for
\* the first iteration of the result, kept as such
Finished(c, n, items) ==
    IF c = 1 /\ n = 1 THEN [hist EXCEPT !.first = <<items>>] ELSE hist

\* the consumer started an iteration beside one that reads the cursor
Beside(c) == hist.overlapped \/ \E d \in Consumers \ {c} : InFlight(d)

\* iter(result) or aiter(result), the start of "for" and "async for"
\* (queries.py 96-97, 104-105, 132-133)
ResIter(c) ==
    /\ MayStart(c)
    /\ IF _iter(result).raised # ""
       THEN /\ cons' = [cons EXCEPT ![c] = [NoConsumer EXCEPT
                           !.pc = "error", !.iters = cons[c].iters + 1]]
            /\ UNCHANGED hist
       ELSE /\ cons' = [cons EXCEPT ![c] = [NoConsumer EXCEPT
                           !.pc = "next", !.over = _iter(result).over,
                           !.late = result.done, !.iters = cons[c].iters + 1]]
            /\ hist' = [hist EXCEPT !.overlapped =
                           IF _iter(result).over = "self" THEN Beside(c) ELSE @]
    /\ UNCHANGED <<schema, result, walkVars, joinVars, sessVars, execVars, declVars, connVars, exprVars>>

\* next() on the iterator a consumer holds: the result's __next__ in the
\* blocking strategy (queries.py 99-102), or the next item of the buffer
\* (queries.py 38-45) once the result was done when the iteration began
ResNext(c) ==
    /\ cons[c].pc = "next"
    /\ cons[c].over = "buffer" \/ hist.kind = "sync"
    /\ IF cons[c].over = "buffer"
       THEN /\ UNCHANGED result
            /\ IF cons[c].pos < Len(result.buffer)
               THEN /\ cons' = [cons EXCEPT
                          ![c].items = Append(@, result.buffer[cons[c].pos + 1]),
                          ![c].pos = @ + 1]
                    /\ UNCHANGED hist
               ELSE /\ cons' = [cons EXCEPT ![c].pc = "idle"]
                    /\ hist' = Finished(c, cons[c].iters, cons[c].items)
       ELSE /\ result' = __next__(result).res
            /\ CASE __next__(result).raised = "" ->
                      /\ cons' = [cons EXCEPT
                             ![c].items = Append(@, __next__(result).item),
                             ![c].fetched = @ + 1]
                      /\ UNCHANGED hist
                 [] __next__(result).raised = "StopIteration" ->
                      /\ cons' = [cons EXCEPT ![c].pc = "idle",
                                              ![c].fetched = @ + 1]
                      /\ hist' = Finished(c, cons[c].iters, cons[c].items)
                 [] OTHER ->
                      /\ cons' = [cons EXCEPT ![c].pc = "error"]
                      /\ UNCHANGED hist
    /\ UNCHANGED <<schema, walkVars, joinVars, sessVars, execVars, declVars, connVars, exprVars>>

\* __anext__ of the suspending strategy up to its await (queries.py
\* 135-137): _next_before, then fetchone() is issued
ResFetch(c) ==
    /\ cons[c].pc = "next"
    /\ cons[c].over = "self" /\ hist.kind = "async"
    /\ result' = fetchone(_next_before(result)).res
    /\ cons' = [cons EXCEPT ![c].pc = "wait",
                            ![c].row = fetchone(_next_before(result)).row,
                            ![c].fetched = @ + 1]
    /\ UNCHANGED <<schema, hist, walkVars, joinVars, sessVars, execVars, declVars, connVars, exprVars>>

\* __anext__ of the suspending strategy after its await (queries.py
\* 138-141): _next_after on the row fetched
ResAfter(c) ==
    /\ cons[c].pc = "wait"
    /\ result' = _next_after(result, cons[c].row).res
    /\ CASE _next_after(result, cons[c].row).raised = "" ->
              /\ cons' = [cons EXCEPT ![c].pc = "next", ![c].row = <<>>,
                     ![c].items =
                         Append(@, _next_after(result, cons[c].row).item)]
              /\ UNCHANGED hist
         [] _next_after(result, cons[c].row).raised = "StopIteration" ->
              /\ cons' = [cons EXCEPT ![c].pc = "idle", ![c].row = <<>>]
              /\ hist' = Finished(c, cons[c].iters, cons[c].items)
         [] OTHER ->
              /\ cons' = [cons EXCEPT ![c].pc = "error", ![c].row = <<>>]
              /\ UNCHANGED hist
    /\ UNCHANGED <<schema, walkVars, joinVars, sessVars, execVars, declVars, connVars, exprVars>>

\* list(result) on a result of the blocking strategy, one call: iter(), the
\* length hint, next() to the end
ResList(c) ==
    /\ MayStart(c)
    /\ hist.kind = "sync"
    /\ result' = PyList(result).res
    /\ IF PyList(result).raised # ""
       THEN /\ cons' = [cons EXCEPT ![c] = [NoConsumer EXCEPT
                           !.pc = "error", !.iters = cons[c].iters + 1]]
            /\ UNCHANGED hist
       ELSE /\ cons' = [cons EXCEPT ![c] = [NoConsumer EXCEPT
                           !.over = _iter(result).over,
                           !.items = PyList(result).items,
                           !.late = result.done,
                           !.fetched = IF result.done THEN 0
                                       ELSE Len(result.cursor) + 2,
                           !.iters = cons[c].iters + 1]]
            /\ hist' = [Finished(c, cons[c].iters + 1, PyList(result).items)
                           EXCEPT !.overlapped =
                               IF _iter(result).over = "self"
                               THEN Beside(c) ELSE @]
    /\ UNCHANGED <<schema, walkVars, joinVars, sessVars, execVars, declVars, connVars, exprVars>>

InitResult ==
    /\ schema = SessSchema
    /\ \E n \in 0..MaxFetch : result = Result("Inner", <<>>, FetchRows(n))
    /\ cons = [c \in Consumers |-> NoConsumer]
    /\ \E kind \in {"sync", "async"} :
           hist = [kind |-> kind, first |-> <<>>, overlapped |-> FALSE]
    /\ wtable = "" /\ wstack = <<>> /\ wresult = <<>> /\ wpc = "idle"
    /\ jtable = "" /\ jspecs = <<>> /\ jresult = <<>> /\ jpc = "idle"
    /\ NoSession
    /\ NoExpr
    /\ NoConn
    /\ NoDecl
    /\ NoExecute

NextResult ==
    \E c \in Consumers :
        ResIter(c) \/ ResNext(c) \/ ResFetch(c) \/ ResAfter(c) \/ ResList(c)

SpecResult == InitResult /\ [][NextResult]_vars

\* C11: once a result object has been consumed to exhaustion, every later
\* iteration of it yields the same items in the same order as the first
\* iteration did, and fetches nothing from the cursor.  Stated for the
\* results no two iterations have read side by side.
C11_BufferedReplay ==
    \A c \in Consumers :
        (/\ cons[c].pc = "idle" /\ cons[c].iters > 0
         /\ cons[c].late
         /\ ~hist.overlapped
         /\ hist.first # <<>>)
        => /\ cons[c].items = hist.first[1]
           /\ cons[c].fetched = 0

\* C12: while an iteration of a result has been started and the result is
\* not exhausted, the start of a second iteration of it raises.
C12_OneInFlight ==
    [][\A c \in Consumers :
          (/\ cons'[c].iters = cons[c].iters + 1
           /\ ~result.done
           /\ \E d \in Consumers \ {c} : InFlight(d))
          => cons'[c].pc = "error"]_vars

(***************************************************************************)
(* The write operations of a session (bulk_create, delete, remove), each   *)
(* followed by the reads that observe it.  The connection is one the       *)
(* session's strategy fits: a plain cursor for Session, an awaitable one   *)
(* for AsyncSession.                                                       *)
(***************************************************************************)
\* rows one bulk_create call carries
MaxBulk == 2

\* the column lists a caller passes to bulk_create: the field that is not
\* the key, alone or after the key
BulkCols(t) ==
    {<<n>> : n \in FieldNames(t) \ {primary(t)}}
    \cup {<<primary(t), n>> : n \in FieldNames(t) \ {primary(t)}}

\* the values a caller passes for a column: nothing for the key, a bool
\* or nothing for a BoolField, a key or nothing for a foreign key
BulkArgs(t, f) ==
    IF f.name = primary(t) THEN {PyNone}
    ELSE IF f.kind = "bool" THEN {PyNone, PyBool(TRUE), PyBool(FALSE)}
    ELSE {PyNone} \cup {PyInt(k) : k \in Keys}

\* the rows a caller passes for a column list, one value per column
BulkRows(t, cols) ==
    {r \in [1..Len(cols) -> UNION {BulkArgs(t, FieldOf(t, n)) :
                                      n \in FieldNames(t)}] :
        \A j \in 1..Len(cols) : r[j] \in BulkArgs(t, FieldOf(t, cols[j]))}

BulkDatas(t, cols) == UNION {[1..n -> BulkRows(t, cols)] : n \in 1..MaxBulk}

\* _bulk_create_fields, broken: a value that has to be left out is given
\* as NULL, and the insert goes on
BulkFieldsFallBack(t, cols, datas) ==
    LET Value(i, j) == _create_value(FieldOf(t, cols[j]), datas[i][j])
        Errs == {e \in (1..Len(datas)) \X (1..Len(cols)) :
                    /\ IsError(Value(e[1], e[2]))
                    /\ Value(e[1], e[2]) # PyError("_OmitValue")}
        FirstOf(es) == CHOOSE e \in es : \A f \in es :
                          e[1] < f[1] \/ (e[1] = f[1] /\ e[2] <= f[2])
    IN IF \E j \in 1..Len(cols) : cols[j] \notin FieldNames(t)
       THEN [raised |-> "KeyError", rows |-> <<>>]
       ELSE IF Errs # {}
       THEN [raised |-> Value(FirstOf(Errs)[1], FirstOf(Errs)[2])[2],
             rows |-> <<>>]
       ELSE [raised |-> "",
             rows |-> [i \in 1..Len(datas) |->
                          [j \in 1..Len(cols) |->
                              IF Value(i, j) = PyError("_OmitValue")
                              THEN PyNone ELSE Value(i, j)]]]

\* _bulk_create_fields (session.py 173-188): field_map[col] of a name that
\* is no field is a KeyError; then the rows of values to insert, or the
\* first exception of the loops over rows and columns; _OmitValue is
\* turned into a RuntimeError
_bulk_create_fields(t, cols, datas) ==
    LET Value(i, j) == _create_value(FieldOf(t, cols[j]), datas[i][j])
        Errs == {e \in (1..Len(datas)) \X (1..Len(cols)) :
                    IsError(Value(e[1], e[2]))}
        Raised(e) == IF Value(e[1], e[2]) = PyError("_OmitValue")
                     THEN "RuntimeError" ELSE Value(e[1], e[2])[2]
        FirstOf(es) == CHOOSE e \in es : \A f \in es :
                          e[1] < f[1] \/ (e[1] = f[1] /\ e[2] <= f[2])
    IN IF \E j \in 1..Len(cols) : cols[j] \notin FieldNames(t)
       THEN [raised |-> "KeyError", rows |-> <<>>]
       ELSE IF Errs # {}
       THEN [raised |-> Raised(FirstOf(Errs)), rows |-> <<>>]
       ELSE [raised |-> "",
             rows |-> [i \in 1..Len(datas) |->
                          [j \in 1..Len(cols) |-> Value(i, j)]]]

\* one row of INSERT INTO t (cols) VALUES ... as the table stores it: a
\* column left out, or given DEFAULT, takes the generated key when it is
\* the primary key, else the column default of CREATE TABLE, else NULL
StoredRow(t, cols, vals, key) ==
    LET given(f) == \E j \in 1..Len(cols) :
                       cols[j] = f.name /\ vals[j] # PyNode("DEFAULT")
    IN [i \in 1..Len(fields(t)) |->
           LET f == fields(t)[i]
           IN IF given(f)
              THEN DbStore(dialect,
                       vals[CHOOSE j \in 1..Len(cols) : cols[j] = f.name])
              ELSE IF f.name = primary(t) THEN PyInt(key)
              ELSE IF f.default[1] # "default" THEN DbStore(dialect, f.default)
              ELSE PyNone]

\* the multi-row INSERT, broken: the VALUES list is stored last row first
DbInsertRowsReversed(t, cols, rows) ==
    [i \in 1..Len(rows) |->
        StoredRow(t, cols, rows[Len(rows) + 1 - i], serial[t] + i)]

\* INSERT INTO t (cols) VALUES (row), ..., (row): the rows the table
\* gains, keys generated in the order of the VALUES list
DbInsertRows(t, cols, rows) ==
    [i \in 1..Len(rows) |-> StoredRow(t, cols, rows[i], serial[t] + i)]

\* the NOT NULL constraint CREATE TABLE puts on every column whose field is
\* not nullable (queries.py 284-291)
NotNull(t, row) ==
    \A i \in 1..Len(fields(t)) : fields(t)[i].nullable \/ row[i] # PyNone

\* Session.bulk_create and AsyncSession.bulk_create (session.py 295-299,
\* 394-398) with InsertQuery (queries.py 380-406): one INSERT statement for
\* all the rows, which the database runs whole or not at all
bulk_create(t, cols, datas) ==
    LET Run(encoded) ==
            IF \E i \in 1..Len(encoded) : \E j \in 1..Len(cols) :
                  IsError(encoded[i][j])
            THEN [raised |-> "TypeError", rows |-> <<>>]
            ELSE IF \E i \in 1..Len(encoded) :
                       ~NotNull(t, DbInsertRows(t, cols, encoded)[i])
                 THEN [raised |-> "RuntimeError", rows |-> <<>>]
            ELSE [raised |-> "", rows |-> DbInsertRows(t, cols, encoded)]
        Built(bf) ==
            IF bf.raised # "" THEN bf
            ELSE Run([i \in 1..Len(bf.rows) |-> InsertValues(t, cols, bf.rows[i])])
    IN Built(_bulk_create_fields(t, cols, datas))

\* rows the INSERT statements of the script have generated keys for
Inserted == serial["Inner"] + serial["Mid"] + serial["Outer"]

\* The script of this specification: writes, as long as none of them
\* raises, then one read that ends it.  The session is a Session or an
\* AsyncSession from the start: every record keeps the strategy of the
\* record before it.
Writing ==
    /\ out.op \in {"", "bulk_create", "delete", "remove"}
    /\ out.kind \in {"", "ok"}

BulkCreate ==
    /\ Writing
    /\ \E t \in SessTables : \E cols \in BulkCols(t) :
       \E datas \in BulkDatas(t, cols) :
          /\ Inserted + Len(datas) <= MaxRows
          /\ LET Done(bc) ==
                     IF bc.raised # ""
                     THEN /\ out' = Out("bulk_create", out.sync, t, NoWhere, <<>>,
                                        FALSE, <<cols, datas>>, bc.raised, "",
                                        <<>>)
                          /\ UNCHANGED <<db, serial>>
                     ELSE /\ db' = [db EXCEPT ![t] = @ \o bc.rows]
                          /\ serial' = [serial EXCEPT ![t] = @ + Len(datas)]
                          /\ out' = Out("bulk_create", out.sync, t, NoWhere, <<>>,
                                        FALSE, <<cols, datas>>, "ok", "", <<>>)
             IN Done(bulk_create(t, cols, datas))
    /\ UNCHANGED <<schema, dialect, walkVars, joinVars, resVars, execVars, declVars, connVars, exprVars>>

\* the keys a caller passes to delete(): none, one or two, in any order
DeleteArgs ==
    {<<>>} \cup {<<PyInt(k)>> : k \in Keys}
    \cup {<<PyInt(k), PyInt(l)>> : k, l \in Keys}

\* the instances a caller passes to remove(): one or two read from a table
RemoveArgs(t) ==
    {<<PyInst(i)>> : i \in Instances(t)}
    \cup {<<PyInst(i), PyInst(j)>> : i, j \in Instances(t)}

\* DeleteQuery._pk_query (queries.py 448-453): the key of an instance of
\* the table, any other argument as it is
DeleteIds(t, insts) ==
    [i \in 1..Len(insts) |->
        IF insts[i][1] = "inst" /\ insts[i][2].table = t
        THEN FieldGet(insts[i][2], primary(t))
        ELSE insts[i]]

\* _Term.__matmul__, broken: the test is made against the first id only
FieldInFirst(t, f, ids) ==
    [op |-> "isin", table |-> pk_table(t), column |-> f.name,
     values |-> <<encode(f, ids[1])>>]

\* _Term.__matmul__ (models.py 248-252) and Expr.__init__ (models.py
\* 328-343): field IN ids, every id encoded by the field
FieldIn(t, f, ids) ==
    [op |-> "isin", table |-> pk_table(t), column |-> f.name,
     values |-> [i \in 1..Len(ids) |-> encode(f, ids[i])]]

\* DELETE FROM t WHERE column IN (values): the rows the table keeps
DbDelete(t, cond) ==
    SelectSeq(db[t],
        LAMBDA r : ~(/\ r[FieldIndex(t, cond.column)] # PyNone
                     /\ \E i \in 1..Len(cond.values) :
                           r[FieldIndex(t, cond.column)]
                             = DbStore(dialect, cond.values[i])))

\* DeleteQuery (queries.py 437-461) executed: the rows of the table after
\* it, or the exception of building the query
DeleteQuery(t, insts) ==
    LET Where(cond) ==
            IF \E i \in 1..Len(cond.values) : IsError(cond.values[i])
            THEN [raised |-> cond.values[CHOOSE i \in 1..Len(cond.values) :
                                            IsError(cond.values[i])][2],
                  rows |-> db[t]]
            ELSE [raised |-> "", rows |-> DbDelete(t, cond)]
    IN IF primary(t) = ""
       THEN [raised |-> "RuntimeError", rows |-> db[t]]
       ELSE Where(FieldIn(t, FieldOf(t, primary(t)), DeleteIds(t, insts)))

\* Session.delete and AsyncSession.delete (session.py 308-313, 407-412)
delete(t, ids) ==
    IF ids = <<>> THEN [raised |-> "", rows |-> db[t]] ELSE DeleteQuery(t, ids)

\* DeleteOneQuery (queries.py 464-482) executed: DELETE FROM t WHERE
\* field = field.encode(value) AND ..., one clause for every field of the
\* table, IS NULL when the encoded value is None; the rows the table keeps,
\* or the exception of building the query
DeleteOneQuery(inst) ==
    LET t == inst.table
        enc == [i \in 1..Len(fields(t)) |->
                   encode(fields(t)[i], FieldGet(inst, fields(t)[i].name))]
        Clause(i) ==
            IF IsError(enc[i]) THEN <<>> ELSE FieldEq(t, fields(t)[i], enc[i])[1]
        Matches(r) ==
            \A i \in 1..Len(fields(t)) : EvalAtom(t, Clause(i), r)
    IN IF \E i \in 1..Len(fields(t)) : IsError(enc[i])
       THEN [raised |-> enc[CHOOSE i \in 1..Len(fields(t)) : IsError(enc[i])][2],
             rows |-> db[t]]
       ELSE IF \E i \in 1..Len(fields(t)) : IsError(Clause(i).value)
       THEN [raised |-> "TypeError", rows |-> db[t]]
       ELSE [raised |-> "", rows |-> SelectSeq(db[t], LAMBDA r : ~Matches(r))]

\* _remove_query, broken: of several instances of a table without primary
\* key the first is deleted
RemoveQueryFirst(insts) ==
    IF primary(insts[1][2].table) # ""
    THEN DeleteQuery(insts[1][2].table, insts)
    ELSE DeleteOneQuery(insts[1][2])

\* _remove_query (session.py 204-211): the table is the class of the
\* first instance; DeleteQuery when it has a primary key, DeleteOneQuery
\* for one instance of a table without, RuntimeError for several
_remove_query(insts) ==
    IF primary(insts[1][2].table) # ""
    THEN DeleteQuery(insts[1][2].table, insts)
    ELSE IF Len(insts) = 1 THEN DeleteOneQuery(insts[1][2])
    ELSE [raised |-> "RuntimeError", rows |-> db[insts[1][2].table]]

\* Session.remove and AsyncSession.remove (session.py 301-306, 400-405)
remove(insts) ==
    IF insts = <<>> THEN [raised |-> "", rows |-> <<>>]
    ELSE _remove_query(insts)

Delete ==
    /\ Writing
    /\ \E t \in SessTables : \E ids \in DeleteArgs :
          LET Done(del) ==
                  /\ db' = [db EXCEPT ![t] = del.rows]
                  /\ out' = Out("delete", out.sync, t, NoWhere, <<>>, FALSE, ids,
                                IF del.raised = "" THEN "ok" ELSE del.raised,
                                "", <<>>)
          IN Done(delete(t, ids))
    /\ UNCHANGED <<schema, dialect, serial, walkVars, joinVars, resVars, execVars, declVars, connVars, exprVars>>

Remove ==
    /\ Writing
    /\ \E t \in SessTables : \E insts \in RemoveArgs(t) :
          LET Done(del) ==
                  /\ db' = [db EXCEPT ![t] = del.rows]
                  /\ out' = Out("remove", out.sync, t, NoWhere, <<>>, FALSE,
                                insts,
                                IF del.raised = "" THEN "ok" ELSE del.raised,
                                "", <<>>)
          IN Done(remove(insts))
    /\ UNCHANGED <<schema, dialect, serial, walkVars, joinVars, resVars, execVars, declVars, connVars, exprVars>>

\* select(T) after the writes, read to its end by a for loop; the record
\* of the call keeps the name of the call before it
SelectAll ==
    /\ Writing
    /\ \E t \in SessTables :
          out' = Returned("select",
                          [sync |-> out.sync, table |-> t, auto_join |-> FALSE],
                          NoWhere, <<>>, <<out.op>>,
                          select(out.sync, t, NoWhere, <<>>, FALSE))
    /\ UNCHANGED <<schema, dialect, db, serial, walkVars, joinVars, resVars, execVars, declVars, connVars, exprVars>>

\* the class of the object Reference.__get__ binds to an instance (models.py
\* 412-417); Nullable.Reference.__get__ (fields.py 141-142) hands over to
\* it, so the bind of a nullable reference is of the same class
BoundClass(ref) == "BoundReference"

\* _load_where (session.py 106-112): foreign == getattr(inst, field.name)
_load_where(ref, inst) ==
    FieldEq(ref.table, FieldOf(ref.table, ref.foreign), FieldGet(inst, ref.field))

\* _load_one (session.py 119-126)
_load_one(results, ref) ==
    IF Len(results) > 0
    THEN [raised |-> "", msg |-> "", value |-> <<results[1]>>]
    ELSE IF BoundClass(ref) = "Nullable.BoundReference"
         THEN [raised |-> "", msg |-> "", value |-> <<>>]
    ELSE [raised |-> "LookupError", msg |-> "none found", value |-> <<>>]

\* Session.load (session.py 278-287) reads the result with list(),
\* AsyncSession.load (session.py 375-386) with an async comprehension; a
\* bind that holds a value returns it, None included
load(sync, ref, inst) ==
    LET One(results) ==
            IF results.raised # ""
            THEN [raised |-> results.raised, msg |-> "", value |-> <<>>]
            ELSE _load_one(results.items, ref)
        Listed(q) ==
            IF q.raised # "" THEN [raised |-> q.raised, msg |-> "", value |-> <<>>]
            ELSE IF sync THEN One(PyList(q.res))
            ELSE One(PyFor(q.res))
    IN IF HasBind(inst, ref.name)
       THEN [raised |-> "", msg |-> "",
             value |-> IF BindValue(inst, ref.name) = NoInst THEN <<>>
                       ELSE <<BindValue(inst, ref.name)>>]
       ELSE Listed(SelectQuery(ref.table, _load_where(ref, inst),
                               _select_joins(ref.table, <<>>, FALSE), 1))

\* the Reference descriptors of the schema
References == UNION {Range(references(t)) : t \in SessTables}

\* the joins of the query that reads the instance load() is called on:
\* none, or the reference itself
LoadJoins(ref) ==
    {<<>>} \cup {<<p>> : p \in {q \in Range(walk_refs(ref.owner, <<>>)) :
                                   Len(q) = 1 /\ q[1].name = ref.name}}

\* first(T, T.key == k, joins) gives an instance, load() is called on the
\* bind of one of its references; the record of the call keeps the
\* reference and the instance
Load ==
    /\ Writing
    /\ \E ref \in References : \E k \in 1..MaxRows :
       \E joins \in LoadJoins(ref) :
          LET where == FieldEq(ref.owner, FieldOf(ref.owner, primary(ref.owner)),
                               PyInt(k))
              Bound(src) ==
                  /\ src.raised = ""
                  /\ src.value # <<>>
                  /\ out' = Returned("load",
                                [sync |-> out.sync, table |-> ref.owner,
                                 auto_join |-> FALSE],
                                where, joins, <<ref, src.value[1]>>,
                                load(out.sync, ref, src.value[1]))
          IN Bound(first(out.sync, ref.owner, where, joins, FALSE))
    /\ UNCHANGED <<schema, dialect, db, serial, walkVars, joinVars, resVars, execVars, declVars, connVars, exprVars>>

InitStore ==
    /\ schema = SessSchema
    /\ dialect = "sqlite"
    /\ db = [t \in SessTables |-> <<>>]
    /\ serial = [t \in SessTables |-> 0]
    /\ out \in {[NoOut EXCEPT !.sync = sync] : sync \in BOOLEAN}
    /\ NoResult
    /\ NoExecute
    /\ NoExpr
    /\ NoDecl
    /\ NoConn
    /\ wtable = "" /\ wstack = <<>> /\ wresult = <<>> /\ wpc = "idle"
    /\ jtable = "" /\ jspecs = <<>> /\ jresult = <<>> /\ jpc = "idle"

NextStore == BulkCreate \/ Delete \/ Remove \/ SelectAll \/ Load

SpecStore == InitStore /\ [][NextStore]_vars

(***************************************************************************)
(* What the writes are expected to do, read off the arguments of the call. *)
(***************************************************************************)
\* the value select() shows for a value given to bulk_create: the value
\* itself, None for a nullable column, else the default of the field
Shown(f, v) ==
    IF v # PyNone THEN v ELSE IF f.nullable THEN PyNone ELSE f.default

GivenKeys(o) ==
    {IF o.arg[i][1] = "inst" THEN o.arg[i][2].data[FieldIndex(o.table, primary(o.table))]
     ELSE o.arg[i] : i \in 1..Len(o.arg)}

\* C14: a delete(T, k1..kn) or remove(i1..in) that returns leaves of table
\* T exactly the rows whose primary key is not among the keys given (the
\* key of an instance being the one it holds), in their order and with
\* their values, and leaves every other table as it was.
C14_DeleteExactly ==
    [][(out'.op \in {"delete", "remove"} /\ out'.kind = "ok")
       => /\ db'[out'.table]
               = SelectSeq(db[out'.table],
                     LAMBDA r : r[FieldIndex(out'.table, primary(out'.table))]
                                  \notin GivenKeys(out'))
          /\ \A t \in SessTables \ {out'.table} : db'[t] = db[t]]_vars

\* a remove of two instances that returned, after which their table holds
\* one row only and another table still holds its own
C14_Witness ==
    /\ out.op = "remove" /\ out.kind = "ok" /\ Len(out.arg) = 2
    /\ out.arg[1] # out.arg[2]
    /\ out.table = "Mid" /\ Len(db["Mid"]) = 1 /\ serial["Mid"] = 3
    /\ \A i \in 1..2 : \A j \in 1..Len(db["Mid"]) :
          db["Mid"][j][FieldIndex("Mid", "key")] # FieldGet(out.arg[i][2], "key")

\* the rows of the referenced table whose foreign column holds the value
\* the instance has in the field of the reference
Referenced(ref, inst) ==
    {i \in 1..Len(db[ref.table]) :
        /\ FieldGet(inst, ref.field) # PyNone
        /\ db[ref.table][i][FieldIndex(ref.table, ref.foreign)]
             = FieldGet(inst, ref.field)}

\* C16: load on the bind of a nullable reference whose foreign key is None
\* returns None and raises nothing, the reference joined or not in the
\* query that gave the instance; load on a reference that is not nullable
\* and has no row to refer to raises LookupError.
C16_LoadNullOrMissing ==
    out.op = "load"
    => LET ref == out.arg[1]
           inst == out.arg[2]
       IN /\ (/\ FieldOf(ref.owner, ref.field).nullable
              /\ FieldGet(inst, ref.field) = PyNone)
             => (out.kind = "ok" /\ out.value = <<>>)
          /\ (/\ ~FieldOf(ref.owner, ref.field).nullable
              /\ Referenced(ref, inst) = {})
             => out.kind = "LookupError"

(***************************************************************************)
(* The execution of the statement of a session operation (queries.py       *)
(* _Query.execute, _AsyncQuery.execute; the operations of Session and      *)
(* AsyncSession in session.py).  The driver's cursor(), execute() and      *)
(* fetchone() each return a plain value or an awaitable; execute() may     *)
(* fail, at the call when it is plain, when awaited when it is awaitable.  *)
(* An exception in flight is the chain of its causes, outermost first.     *)
(***************************************************************************)
Operations ==
    {"setup", "destroy", "select", "get", "first", "load", "create",
     "bulk_create", "remove", "delete"}

\* the operations whose AsyncSession method builds the query of the sync
\* session (CreateTableQuery, DropTableQuery, DeleteQuery: session.py 327,
\* 333, 403, 410), not an _AsyncQuery
PlainQueryOps == {"setup", "destroy", "remove", "delete"}

\* the operations that read rows from the cursor
FetchOps == {"select", "get", "first", "load"}

\* the calls of the model; a Session is given a driver of plain values
ExecCalls ==
    {c \in [op : Operations, sync : BOOLEAN, acursor : BOOLEAN,
            aexecute : BOOLEAN, afetch : BOOLEAN, fail : BOOLEAN] :
        c.sync => (~c.acursor /\ ~c.aexecute /\ ~c.afetch)}

\* the failure of the driver, and what the code raises
DriverError == [type |-> "DriverError", sql |-> FALSE]

ExecutionError == [type |-> "RuntimeError", sql |-> TRUE]

AwaitTypeError == [type |-> "TypeError", sql |-> FALSE]

\* before the first step: nothing returned, nothing raised, nothing run
Start == [pc |-> "cursor", pending |-> "", exc |-> <<>>, ran |-> FALSE]

\* maybe_await (utils.py 14-23): awaits its argument if and only if it is
\* awaitable
MaybeAwaits(pending) == pending = "awaitable"

\* cursor = self.conn.cursor(), or await maybe_await(self.conn.cursor())
XCursor(c, st) ==
    [st EXCEPT !.pc = "execute",
               !.pending = IF c.acursor THEN "awaitable" ELSE "plain"]

\* where the control goes once the statement has been executed
AfterExecute(c) == IF c.op \in FetchOps THEN "fetch" ELSE "done"

\* _Query.execute (queries.py 247-255): cursor.execute(sql) is called; what
\* it raises at the call is wrapped, what it returns is returned
XExecute(c, st) ==
    IF c.aexecute
    THEN [st EXCEPT !.pc = "await", !.pending = "awaitable"]
    ELSE IF c.fail
         THEN [st EXCEPT !.pc = IF c.sync \/ c.op \in PlainQueryOps THEN "done"
                                ELSE "except",
                         !.pending = "",
                         !.exc = <<ExecutionError, DriverError>>]
    ELSE [st EXCEPT !.pc = IF c.sync THEN AfterExecute(c) ELSE "await",
                    !.pending = "plain", !.ran = TRUE]

\* the await of an awaitable execute(): the statement runs or fails
Awaited(c, st, handler) ==
    IF c.fail THEN [st EXCEPT !.pc = handler, !.pending = "", !.exc = <<DriverError>>]
    ELSE [st EXCEPT !.pc = AfterExecute(c), !.pending = "plain", !.ran = TRUE]

\* what an AsyncSession does with the value _Query.execute returned:
\* "await query.execute(cursor)" on a query of the sync session (session.py
\* 330, 336, 405, 412), "await maybe_await(super().execute(cursor))" inside
\* the try of _AsyncQuery.execute otherwise (queries.py 260-262)
XAwait(c, st) ==
    IF c.op \in PlainQueryOps
    THEN IF st.pending = "awaitable" THEN Awaited(c, st, "done")
         ELSE [st EXCEPT !.pc = "done", !.pending = "", !.exc = <<AwaitTypeError>>]
    ELSE IF MaybeAwaits(st.pending) THEN Awaited(c, st, "except")
         ELSE [st EXCEPT !.pc = AfterExecute(c)]

\* the except clause of _AsyncQuery.execute (queries.py 263-264): raise
\* RuntimeError(... pk_query) from ex
XExcept(c, st) ==
    [st EXCEPT !.pc = "done", !.exc = <<ExecutionError>> \o @]

\* row = self.cursor.fetchone() (queries.py 102), or await
\* maybe_await(self.cursor.fetchone()) (queries.py 137)
XFetch(c, st) ==
    [st EXCEPT !.pc = "done", !.pending = ""]

XStep(c, st) ==
    CASE st.pc = "cursor" -> XCursor(c, st)
      [] st.pc = "execute" -> XExecute(c, st)
      [] st.pc = "await" -> XAwait(c, st)
      [] st.pc = "except" -> XExcept(c, st)
      [] st.pc = "fetch" -> XFetch(c, st)
      [] OTHER -> st

\* the operation run to its end
RECURSIVE XRun(_, _)
XRun(c, st) == IF st.pc = "done" THEN st ELSE XRun(c, XStep(c, st))

ExecCursor ==
    /\ xst.pc = "cursor"
    /\ xst' = XCursor(call, xst)
    /\ UNCHANGED <<schema, call, walkVars, joinVars, sessVars, resVars, declVars, connVars, exprVars>>

ExecExecute ==
    /\ xst.pc = "execute"
    /\ xst' = XExecute(call, xst)
    /\ UNCHANGED <<schema, call, walkVars, joinVars, sessVars, resVars, declVars, connVars, exprVars>>

ExecAwait ==
    /\ xst.pc = "await"
    /\ xst' = XAwait(call, xst)
    /\ UNCHANGED <<schema, call, walkVars, joinVars, sessVars, resVars, declVars, connVars, exprVars>>

ExecExcept ==
    /\ xst.pc = "except"
    /\ xst' = XExcept(call, xst)
    /\ UNCHANGED <<schema, call, walkVars, joinVars, sessVars, resVars, declVars, connVars, exprVars>>

ExecFetch ==
    /\ xst.pc = "fetch"
    /\ xst' = XFetch(call, xst)
    /\ UNCHANGED <<schema, call, walkVars, joinVars, sessVars, resVars, declVars, connVars, exprVars>>

InitExecute ==
    /\ schema = SessSchema
    /\ call \in ExecCalls
    /\ xst = Start
    /\ NoSession
    /\ NoExpr
    /\ NoConn
    /\ NoDecl
    /\ NoResult
    /\ wtable = "" /\ wstack = <<>> /\ wresult = <<>> /\ wpc = "idle"
    /\ jtable = "" /\ jspecs = <<>> /\ jresult = <<>> /\ jpc = "idle"

NextExecute == ExecCursor \/ ExecExecute \/ ExecAwait \/ ExecExcept \/ ExecFetch

SpecExecute == InitExecute /\ [][NextExecute]_vars

\* the outcome of an operation: what it raised, and whether the statement
\* was run
Outcome(st) == [exc |-> st.exc, ran |-> st.ran]

\* the same call behind a driver of plain values
PlainDriver(c) ==
    [c EXCEPT !.acursor = FALSE, !.aexecute = FALSE, !.afetch = FALSE]

\* C15: whatever the operation and the strategy, a failure of the cursor's
\* execute reaches the caller as the execution error that carries the SQL
\* text, with the driver's failure as its cause.
C15_FailureWrapped ==
    (xst.pc = "done" /\ call.fail)
    => xst.exc = <<ExecutionError, DriverError>>

\* C17: an AsyncSession operation ends with the same outcome behind a
\* driver of awaitables as behind a driver of plain values.
C17_SameOutcome ==
    (xst.pc = "done" /\ ~call.sync)
    => Outcome(xst) = Outcome(XRun(PlainDriver(call), Start))

(***************************************************************************)
(* Schema declaration (models.py _Descriptor, Field, Reference,            *)
(* TableMeta.__init__; utils.py resolve_late_descriptors).  A descriptor   *)
(* is an object of its own: descs lists them, and the slots of the classes *)
(* hold their positions in it.  A descriptor without owner has owner "".   *)
(***************************************************************************)
\* descriptors the statements of one script construct
MaxNew == 2
\* attributes one script sets on classes after their creation
MaxLate == 1

\* the classes of a script: O is there from the start, M and N are declared
DeclClasses == {"O", "M", "N"}

\* the attribute names of the slots, in the order dir() lists them
SlotNames == <<"key", "x", "y">>

NameIndex(n) == CHOOSE i \in 1..Len(SlotNames) : SlotNames[i] = n

\* Field.__init__ (models.py 275-280)
NewField(default, foreign) ==
    [kind |-> "field", owner |-> "", name |-> "", default |-> default,
     foreign |-> foreign, field |-> 0, table |-> "", copy |-> FALSE]

\* Reference.__init__ (models.py 388-395): the exception it raises, "" for
\* none; field.foreign.owner of a foreign field that has no owner is an
\* AttributeError
ReferenceInit(ds, field, table) ==
    IF ds[field].foreign = 0 THEN "ValueError"
    ELSE IF ds[ds[field].foreign].owner = "" THEN "AttributeError"
    ELSE IF ds[ds[field].foreign].owner # table THEN "TypeError"
    ELSE ""

NewReference(field, table) ==
    [kind |-> "ref", owner |-> "", name |-> "", default |-> DefaultNone,
     foreign |-> 0, field |-> field, table |-> table, copy |-> FALSE]

\* _Descriptor.__set_name__ (models.py 137-141)
DescriptorSetName(ds, d, owner, name) ==
    IF ds[d].owner # ""
    THEN [raised |-> "RuntimeError", ds |-> ds]
    ELSE [raised |-> "",
          ds |-> [ds EXCEPT ![d] = [@ EXCEPT !.owner = owner, !.name = name]]]

\* Reference.__set_name__ (models.py 401-405): the owner and the name are
\* assigned by super().__set_name__ before the owner of the field is
\* compared; self.field.owner of a field without owner is an AttributeError
ReferenceSetName(ds, d, owner, name) ==
    LET Checked(s) ==
            IF s.raised # "" THEN s
            ELSE IF s.ds[s.ds[d].field].owner = ""
                 THEN [raised |-> "AttributeError", ds |-> s.ds]
            ELSE IF owner # s.ds[s.ds[d].field].owner
                 THEN [raised |-> "TypeError", ds |-> s.ds]
            ELSE s
    IN Checked(DescriptorSetName(ds, d, owner, name))

\* value.__set_name__(owner, name) of a descriptor
__set_name__(ds, d, owner, name) ==
    IF ds[d].kind = "ref" THEN ReferenceSetName(ds, d, owner, name)
    ELSE DescriptorSetName(ds, d, owner, name)

\* type.__new__ calls __set_name__ on the slots of the class body in their
\* order and gives up at the first that raises
RECURSIVE BindSlots(_, _, _, _)
BindSlots(ds, cls, slots, i) ==
    LET Bound(s) == IF s.raised # "" THEN s ELSE BindSlots(s.ds, cls, slots, i + 1)
    IN IF i > Len(slots) THEN [raised |-> "", ds |-> ds]
       ELSE Bound(__set_name__(ds, slots[i].d, cls, slots[i].name))

\* resolve_late_descriptors (utils.py 26-34) on one class: the slots of
\* vars(target) in their order, those whose descriptor has an owner skipped
RECURSIVE ResolveSlots(_, _, _, _)
ResolveSlots(ds, cls, slots, i) ==
    LET Bound(s) == IF s.raised # "" THEN s ELSE ResolveSlots(s.ds, cls, slots, i + 1)
    IN IF i > Len(slots) THEN [raised |-> "", ds |-> ds]
       ELSE IF ds[slots[i].d].owner # "" THEN ResolveSlots(ds, cls, slots, i + 1)
       ELSE Bound(__set_name__(ds, slots[i].d, cls, slots[i].name))

\* setattr(cls, name, value) on the slots of a class: a slot of that name
\* takes the value, a new one goes last
SetAttr(slots, name, d) ==
    IF \E i \in 1..Len(slots) : slots[i].name = name
    THEN [i \in 1..Len(slots) |->
             IF slots[i].name = name THEN [name |-> name, d |-> d] ELSE slots[i]]
    ELSE Append(slots, [name |-> name, d |-> d])

HasSlot(slots, name) == \E i \in 1..Len(slots) : slots[i].name = name

SlotOf(slots, name) == slots[CHOOSE i \in 1..Len(slots) : slots[i].name = name].d

\* getattr(cls, name) for every name of dir(cls): the slots of the class,
\* then those of its bases that it does not have itself
RECURSIVE Dir(_, _)
Dir(cs, cls) ==
    LET own == cs[cls].attrs
        Inherited(up) ==
            SelectSeq(up, LAMBDA s : ~HasSlot(own, s.name))
    IN IF cs[cls].base = "" THEN own
       ELSE own \o Inherited(Dir(cs, cs[cls].base))

\* TableMeta.fields and TableMeta.references (models.py 66-89): the slots
\* of a kind, in the order of dir()
MetaSlots(ds, cs, cls, kind) ==
    LET found == {s \in Range(Dir(cs, cls)) : ds[s.d].kind = kind}
    IN [i \in 1..Cardinality(found) |->
           CHOOSE s \in found :
              Cardinality({u \in found : NameIndex(u.name) < NameIndex(s.name)})
                = i - 1]

\* field = copy(field), broken: the copy keeps the owner of the original
CopyKeepsOwner(ds, d, cls) == [ds[d] EXCEPT !.copy = TRUE]

\* field = copy(field); field.owner = table (models.py 58-59)
CopyField(ds, d, cls) == [ds[d] EXCEPT !.owner = cls, !.copy = TRUE]

\* TableMeta.__init__ (models.py 55-61): every field of the base is copied,
\* the copy given the new class as owner and set on it under its name
RECURSIVE CopyFields(_, _, _, _, _)
CopyFields(ds, slots, cls, inherited, i) ==
    IF i > Len(inherited) THEN [ds |-> ds, slots |-> slots]
    ELSE CopyFields(Append(ds, CopyField(ds, inherited[i].d, cls)),
                    SetAttr(slots, inherited[i].name, Len(ds) + 1),
                    cls, inherited, i + 1)

\* self.fields.get(primary), broken: a name that is no field gives no
\* primary key and no error
FieldsGetOrNone(ds, slots, n) ==
    IF HasSlot(slots, n) /\ ds[SlotOf(slots, n)].kind = "field"
    THEN [raised |-> "", primary |-> SlotOf(slots, n)]
    ELSE [raised |-> "", primary |-> 0]

\* self.fields[primary] (models.py 63-64): the field in the slot of that
\* name, KeyError when the class has no field of that name
FieldsItem(ds, slots, n) ==
    IF HasSlot(slots, n) /\ ds[SlotOf(slots, n)].kind = "field"
    THEN [raised |-> "", primary |-> SlotOf(slots, n)]
    ELSE [raised |-> "KeyError", primary |-> 0]

\* TableMeta.__init__ (models.py 48-64) for a class with the given slots
\* and base ("" when the base is Table itself): the descriptors and slots
\* after the copies, and the primary key, fields[primary] of a name that
\* is no field raising KeyError
TableMetaInit(ds, cs, cls, slots, base, pname) ==
    LET PrimaryName(cp) ==
            IF base # "" /\ pname = "" /\ cs[base].primary # 0
            THEN cp.ds[cs[base].primary].name
            ELSE pname
        Keyed(cp, n) ==
            IF n = ""
            THEN [raised |-> "", ds |-> cp.ds, slots |-> cp.slots, primary |-> 0]
            ELSE [raised |-> FieldsItem(cp.ds, cp.slots, n).raised,
                  ds |-> cp.ds, slots |-> cp.slots,
                  primary |-> FieldsItem(cp.ds, cp.slots, n).primary]
        Copied(cp) == Keyed(cp, PrimaryName(cp))
    IN IF base = "" THEN Copied([ds |-> ds, slots |-> slots])
       ELSE Copied(CopyFields(ds, slots, cls, MetaSlots(ds, cs, base, "field"), 1))

\* a class that no statement has declared yet
NoClass ==
    [state |-> "none", attrs |-> <<>>, base |-> "", primary |-> 0, late |-> 0]

\* the record of a statement: what it was, on which class and descriptor,
\* and the exception it raised ("" for none); of a class statement also
\* the body, the base ("" for Table) and the primary argument
ClassStmt(cls, d, raised, body, base, pname) ==
    [op |-> "class", cls |-> cls, d |-> d, raised |-> raised, body |-> body,
     base |-> base, pname |-> pname]

Stmt(op, cls, d, raised) ==
    [op |-> op, cls |-> cls, d |-> d, raised |-> raised, body |-> <<>>,
     base |-> "", pname |-> ""]

Descs == 1..Len(descs)

Defined == {c \in DeclClasses : classes[c].state = "defined"}

\* the descriptors the statements of the script name: O.key and those
\* they have constructed, not the copies a subclass was given
Named == {d \in Descs : ~descs[d].copy}

Constructed == Cardinality(Named) - 1

\* attributes set on classes after their creation
LateSet == classes["O"].late + classes["M"].late + classes["N"].late

\* the names a script gives to the slots it adds
NewNames == {"x", "y"}

\* the class bodies of the model: nothing, x, y, or x and then y, each slot
\* holding a descriptor made before
Bodies ==
    {<<>>}
    \cup {<<[name |-> n, d |-> d]>> : n \in NewNames, d \in Named}
    \cup {<<[name |-> "x", d |-> d], [name |-> "y", d |-> e]>> :
             d \in Named, e \in Named}

\* f = Field(...), IntField(default=0), IntField(foreign=g), ...
DeclField ==
    /\ Constructed < MaxNew
    /\ \E default \in {DefaultNone, PyInt(0)} :
       \E foreign \in {0} \cup {d \in Named : descs[d].kind = "field"} :
          /\ (default # DefaultNone => foreign = 0)
          /\ descs' = Append(descs, NewField(default, foreign))
          /\ decl' = Stmt("Field", "", Len(descs) + 1, "")
    /\ UNCHANGED <<schema, classes, walkVars, joinVars, sessVars, resVars, execVars, connVars, exprVars>>

\* r = Reference(field, table)
DeclReference ==
    /\ Constructed < MaxNew
    /\ \E field \in {d \in Descs : descs[d].kind = "field"} : \E table \in Defined :
          IF ReferenceInit(descs, field, table) # ""
          THEN /\ decl' = Stmt("Reference", table, 0,
                               ReferenceInit(descs, field, table))
               /\ UNCHANGED descs
          ELSE /\ descs' = Append(descs, NewReference(field, table))
               /\ decl' = Stmt("Reference", table, Len(descs) + 1, "")
    /\ UNCHANGED <<schema, classes, walkVars, joinVars, sessVars, resVars, execVars, connVars, exprVars>>

\* class cls(base, primary=pname): body.  type.__new__ binds the slots,
\* then Table.__init_subclass__ builds the TableMeta (models.py 161-162); an
\* exception of either leaves no class, but the descriptors bound before
\* it stay bound
DeclClass ==
    /\ \E cls \in {c \in DeclClasses : /\ classes[c].state = "none"
                                       /\ c = "N" => classes["M"].state # "none"} :
       \E slots \in Bodies : \E base \in {""} \cup Defined :
       \E pname \in {"", "x"} :
          LET Made(tm) ==
                  /\ descs' = tm.ds
                  /\ classes' = [classes EXCEPT ![cls] =
                        IF tm.raised # "" THEN [NoClass EXCEPT !.state = "failed"]
                        ELSE [state |-> "defined", attrs |-> tm.slots,
                              base |-> base, primary |-> tm.primary,
                              late |-> 0]]
                  /\ decl' = ClassStmt(cls, 0, tm.raised, slots, base, pname)
              Body(b) ==
                  IF b.raised # ""
                  THEN /\ descs' = b.ds
                       /\ classes' = [classes EXCEPT ![cls] =
                                         [NoClass EXCEPT !.state = "failed"]]
                       /\ decl' = ClassStmt(cls,
                               slots[CHOOSE i \in 1..Len(slots) :
                                       /\ BindSlots(descs, cls, SubSeq(slots, 1, i), 1).raised # ""
                                       /\ BindSlots(descs, cls, SubSeq(slots, 1, i - 1), 1).raised = ""].d,
                               b.raised, slots, base, pname)
                  ELSE Made(TableMetaInit(b.ds, classes, cls, slots, base, pname))
          IN Body(BindSlots(descs, cls, slots, 1))
    /\ UNCHANGED <<schema, walkVars, joinVars, sessVars, resVars, execVars, connVars, exprVars>>

\* cls.name = d after the class was created: setattr binds nothing.  The
\* model gives a class new attributes only, it replaces none.
DeclAssign ==
    /\ LateSet < MaxLate
    /\ \E cls \in Defined \ {"O"} : \E d \in Named :
       \E n \in {m \in NewNames : ~HasSlot(Dir(classes, cls), m)} :
          /\ classes' = [classes EXCEPT ![cls].attrs = SetAttr(@, n, d),
                                        ![cls].late = @ + 1]
          /\ decl' = Stmt("setattr", cls, d, "")
    /\ UNCHANGED <<schema, descs, walkVars, joinVars, sessVars, resVars, execVars, connVars, exprVars>>

\* resolve_late_descriptors(cls) (utils.py 26-34), called by the program or
\* by Session.setup (session.py 233-234)
DeclResolve ==
    /\ \E cls \in Defined :
          LET Done(r) ==
                  /\ descs' = r.ds
                  /\ decl' = Stmt("resolve", cls, 0, r.raised)
          IN Done(ResolveSlots(descs, cls, classes[cls].attrs, 1))
    /\ UNCHANGED <<schema, classes, walkVars, joinVars, sessVars, resVars, execVars, connVars, exprVars>>

InitDecl ==
    /\ schema = SessSchema
    /\ descs = <<[kind |-> "field", owner |-> "O", name |-> "key",
                  default |-> DefaultServer, foreign |-> 0, field |-> 0,
                  table |-> "", copy |-> FALSE]>>
    /\ classes = [c \in DeclClasses |->
                    IF c = "O"
                    THEN [state |-> "defined", attrs |-> <<[name |-> "key", d |-> 1]>>,
                          base |-> "", primary |-> 1, late |-> 0]
                    ELSE NoClass]
    /\ decl = Stmt("", "", 0, "")
    /\ NoSession
    /\ NoExpr
    /\ NoConn
    /\ NoResult
    /\ NoExecute
    /\ wtable = "" /\ wstack = <<>> /\ wresult = <<>> /\ wpc = "idle"
    /\ jtable = "" /\ jspecs = <<>> /\ jresult = <<>> /\ jpc = "idle"

NextDecl == DeclField \/ DeclReference \/ DeclClass \/ DeclAssign \/ DeclResolve

SpecDecl == InitDecl /\ [][NextDecl]_vars

\* C18: a descriptor that has an owner keeps its owner and its name; a
\* class body that puts a descriptor in a second slot (one that has an
\* owner already, or the same one twice) raises; and a late-binding pass
\* over a class raises when it finds, in a slot of the class, a descriptor
\* that is bound to another slot.
C18_BoundOnce ==
    [][/\ \A d \in Descs :
             descs[d].owner # ""
             => /\ descs'[d].owner = descs[d].owner
                /\ descs'[d].name = descs[d].name
       /\ (/\ decl'.op = "class"
           /\ \E i \in 1..Len(decl'.body) :
                 \/ descs[decl'.body[i].d].owner # ""
                 \/ \E j \in 1..Len(decl'.body) :
                       i # j /\ decl'.body[i].d = decl'.body[j].d)
          => decl'.raised # ""
       /\ (/\ decl'.op = "resolve"
           /\ \E i \in 1..Len(classes[decl'.cls].attrs) :
                 LET s == classes[decl'.cls].attrs[i]
                 IN /\ descs[s.d].owner # "" /\ ~descs[s.d].copy
                    /\ <<descs[s.d].owner, descs[s.d].name>> # <<decl'.cls, s.name>>)
          => decl'.raised # ""]_vars

\* a Reference descriptor is well declared: its field is foreign, the
\* field's foreign field is owned by the table of the reference, and the
\* field is owned by the owner of the reference
ValidReference(d) ==
    /\ descs[descs[d].field].foreign # 0
    /\ descs[descs[descs[d].field].foreign].owner = descs[d].table
    /\ descs[descs[d].field].owner = descs[d].owner

\* C19: once a class statement or a late-binding pass on a class has
\* returned without an exception, every Reference the class has that is
\* bound to an owner is well declared.
C19_ReferencesValid ==
    (decl.op \in {"class", "resolve"} /\ decl.raised = "")
    => \A s \in Range(MetaSlots(descs, classes, decl.cls, "ref")) :
          descs[s.d].owner # "" => ValidReference(s.d)

\* C20: when a class statement with a base returns, the class has, for
\* every field its base had, a field of that name which is another object,
\* is owned by the class and has the default and the foreign field of the
\* base's; the field of the base keeps the owner and the name it has; and
\* when the statement names no primary key and the base has one, the
\* primary key of the class is the field the class has under the name of
\* the base's, a field owned by the class.
C20_InheritedFields ==
    [][(decl'.op = "class" /\ decl'.raised = "" /\ classes'[decl'.cls].base # "")
       => LET cls == decl'.cls
              base == classes'[cls].base
              slots == classes'[cls].attrs
          IN /\ \A s \in Range(MetaSlots(descs, classes, base, "field")) :
                   /\ HasSlot(slots, s.name)
                   /\ SlotOf(slots, s.name) # s.d
                   /\ descs'[SlotOf(slots, s.name)].owner = cls
                   /\ descs'[SlotOf(slots, s.name)].default = descs[s.d].default
                   /\ descs'[SlotOf(slots, s.name)].foreign = descs[s.d].foreign
                   /\ descs[s.d].owner # ""
                      => /\ descs'[s.d].owner = descs[s.d].owner
                         /\ descs'[s.d].name = descs[s.d].name
             /\ (decl'.pname = "" /\ classes[base].primary # 0)
                => /\ classes'[cls].primary
                        = SlotOf(slots, descs[classes[base].primary].name)
                   /\ classes'[cls].primary # classes[base].primary
                   /\ descs'[classes'[cls].primary].owner = cls
                   /\ descs'[classes'[cls].primary].default
                        = descs[classes[base].primary].default]_vars

\* the class N made from M, itself made from O: N has its own key, which
\* is its primary key, and its own field x, foreign as the x of M is
C20_Witness ==
    /\ decl.op = "class" /\ decl.raised = "" /\ decl.cls = "N" /\ decl.pname = ""
    /\ classes["N"].base = "M" /\ classes["M"].base = "O"
    /\ HasSlot(classes["N"].attrs, "x") /\ HasSlot(classes["M"].attrs, "x")
    /\ descs[SlotOf(classes["N"].attrs, "x")].foreign = 1
    /\ descs[SlotOf(classes["N"].attrs, "x")].owner = "N"
    /\ descs[SlotOf(classes["M"].attrs, "x")].owner = "M"
    /\ classes["N"].primary = SlotOf(classes["N"].attrs, "key")
    /\ classes["N"].primary \notin {1, classes["M"].primary}

(***************************************************************************)
(* The primary key of a declared table.                                    *)
(***************************************************************************)
\* the class statement at hand declares a field under the name n: in its
\* body, or in the fields its base hands down
DeclaresField(n) ==
    \/ \E i \in 1..Len(decl'.body) :
          decl'.body[i].name = n /\ descs[decl'.body[i].d].kind = "field"
    \/ /\ decl'.base # ""
       /\ \E s \in Range(Dir(classes, decl'.base)) :
             s.name = n /\ descs[s.d].kind = "field"

\* C21: a class statement with a primary-key name, its body bound without
\* error: when no field is declared under that name the statement raises
\* KeyError and leaves no table; when one is, the statement succeeds and
\* the primary key of the table is the field in the slot of that name, a
\* field the table owns.
C21_PrimaryKeyNamed ==
    [][(decl'.op = "class" /\ decl'.pname # "" /\ decl'.d = 0) =>
          IF DeclaresField(decl'.pname)
          THEN /\ decl'.raised = ""
               /\ classes'[decl'.cls].state = "defined"
               /\ classes'[decl'.cls].primary # 0
               /\ classes'[decl'.cls].primary
                    = SlotOf(classes'[decl'.cls].attrs, decl'.pname)
               /\ descs'[classes'[decl'.cls].primary].kind = "field"
               /\ descs'[classes'[decl'.cls].primary].owner = decl'.cls
          ELSE /\ decl'.raised = "KeyError"
               /\ classes'[decl'.cls].state = "failed"]_vars

\* M was declared with the primary key x, then the statement of N, whose
\* body has no x, named x and raised
C21_Witness ==
    /\ classes["M"].state = "defined"
    /\ classes["M"].primary # 0
    /\ descs[classes["M"].primary].name = "x"
    /\ decl.op = "class" /\ decl.cls = "N" /\ decl.pname = "x"
    /\ decl.base = "" /\ decl.raised = "KeyError"
    /\ classes["N"].state = "failed"

(***************************************************************************)
(* The connection behind a session (session.py Session, AsyncSession).     *)
(* Every call of an operation is followed from the building of its query   *)
(* to the last thing it does with the connection: conn lists, in their     *)
(* order, the cursors the call acquired and the statements and fetches it  *)
(* sent through them.  The database holds a few rows when the call is      *)
(* made, and the table Outer is declared with or without its primary key.  *)
(***************************************************************************)
\* cursor = self.conn.cursor(): the n-th cursor of the call
Acquired(n) == [ev |-> "cursor", cursor |-> n]

\* cursor.execute(sql) on the n-th cursor
Executed(n) == [ev |-> "execute", cursor |-> n]

\* cursor.fetchone() on the n-th cursor
Fetched(n) == [ev |-> "fetch", cursor |-> n]

Cursors(log) == {i \in 1..Len(log) : log[i].ev = "cursor"}

Statements(log) == {i \in 1..Len(log) : log[i].ev = "execute"}

\* the declarations of the model: the tables of the session model, Outer
\* with its primary key or declared without one
ConnSchemas ==
    {SessSchema, [SessSchema EXCEPT !.primary["Outer"] = ""]}

\* the rows behind the connection when the call is made: one Inner, one
\* Mid that refers to it, an Outer that refers to nothing and one that
\* refers to the Mid
ConnDb(d) ==
    [t \in SessTables |->
        CASE t = "Inner" -> <<<<PyInt(1), DbStore(d, PyBool(FALSE))>>>>
          [] t = "Mid" -> <<<<PyInt(1), PyInt(1)>>>>
          [] OTHER -> <<<<PyInt(1), PyNone>>, <<PyInt(2), PyInt(1)>>>>]

ConnSerial == [t \in SessTables |-> IF t = "Outer" THEN 2 ELSE 1]

\* no call has been made yet
ConnIdle == out.op = ""

\* the column lists a caller passes to bulk_create: one or two names, of
\* fields of the table or of nothing
ConnBulkCols(t) ==
    LET names == FieldNames(t) \cup {"nope"}
    IN {<<n>> : n \in names}
       \cup {c \in names \X names : c[1] # c[2]}

\* the values a caller passes for a column: nothing or a key for a key,
\* a bool or nothing for a BoolField
ConnBulkArgs(t, n) ==
    IF n \notin FieldNames(t) THEN {PyNone, PyInt(1)}
    ELSE IF FieldOf(t, n).kind = "bool"
         THEN {PyNone, PyBool(TRUE), PyBool(FALSE)}
    ELSE {PyNone} \cup {PyInt(k) : k \in Keys}

ConnBulkRows(t, cols) ==
    {r \in [1..Len(cols) -> UNION {ConnBulkArgs(t, cols[j]) : j \in 1..Len(cols)}] :
        \A j \in 1..Len(cols) : r[j] \in ConnBulkArgs(t, cols[j])}

ConnBulkDatas(t, cols) ==
    UNION {[1..n -> ConnBulkRows(t, cols)] : n \in 1..MaxBulk}

\* the first two lines of bulk_create (session.py 296-297, 395-396):
\* _bulk_create_fields, then InsertQuery.__init__, whose _pk_query encodes
\* every value (queries.py 395-400)
BulkBuild(t, cols, datas) ==
    LET Encoded(rows) ==
            IF \E i \in 1..Len(rows) : \E j \in 1..Len(cols) : IsError(rows[i][j])
            THEN [raised |-> "TypeError", rows |-> <<>>]
            ELSE [raised |-> "", rows |-> rows]
        Built(bf) ==
            IF bf.raised # "" THEN bf
            ELSE Encoded([i \in 1..Len(bf.rows) |->
                             InsertValues(t, cols, bf.rows[i])])
    IN Built(_bulk_create_fields(t, cols, datas))

\* the PRIMARY KEY constraint of CREATE TABLE: no two rows of a table with
\* the same key
UniqueKeys(t, rows) ==
    \/ primary(t) = ""
    \/ \A i \in 1..Len(rows) : \A j \in 1..Len(rows) :
          rows[i][FieldIndex(t, primary(t))] = rows[j][FieldIndex(t, primary(t))]
             => i = j

\* Session.bulk_create and AsyncSession.bulk_create (session.py 295-299,
\* 394-398): the query is built, then the cursor acquired, then the one
\* INSERT executed through it, which the database refuses whole when a row
\* breaks a constraint
ConnBulkCreate ==
    /\ ConnIdle
    /\ \E t \in SessTables : \E cols \in ConnBulkCols(t) :
       \E datas \in ConnBulkDatas(t, cols) :
          LET Ran(bc) ==
                  /\ conn' = <<Acquired(1), Executed(1)>>
                  /\ IF bc.raised # "" \/ ~UniqueKeys(t, db[t] \o bc.rows)
                     THEN /\ out' = Out("bulk_create", out.sync, t, NoWhere,
                                        <<>>, FALSE, <<cols, datas>>,
                                        "RuntimeError",
                                        "Failed to execute query", <<>>)
                          /\ UNCHANGED <<db, serial>>
                     ELSE /\ db' = [db EXCEPT ![t] = @ \o bc.rows]
                          /\ serial' = [serial EXCEPT ![t] = @ + Len(datas)]
                          /\ out' = Out("bulk_create", out.sync, t, NoWhere,
                                        <<>>, FALSE, <<cols, datas>>, "ok", "",
                                        <<>>)
              Built(b) ==
                  IF b.raised # ""
                  THEN /\ conn' = <<>>
                       /\ out' = Out("bulk_create", out.sync, t, NoWhere, <<>>,
                                     FALSE, <<cols, datas>>, b.raised, "", <<>>)
                       /\ UNCHANGED <<db, serial>>
                  ELSE Ran(bulk_create(t, cols, datas))
          IN Built(BulkBuild(t, cols, datas))
    /\ UNCHANGED <<schema, dialect, walkVars, joinVars, resVars, execVars, declVars, exprVars>>

\* the instances a caller passes to remove(): none, or one or two read
\* from a table
ConnRemoveArgs ==
    {<<>>}
    \cup UNION {{<<PyInst(i)>> : i \in Instances(t)} : t \in SessTables}
    \cup UNION {{<<PyInst(i), PyInst(j)>> : i, j \in Instances(t)} :
                   t \in SessTables}

\* Session.remove and AsyncSession.remove (session.py 301-306, 400-405):
\* nothing at all without instances; else the query is built, then the
\* cursor acquired and the DELETE executed through it
ConnRemove ==
    /\ ConnIdle
    /\ \E insts \in ConnRemoveArgs :
          LET t == IF insts = <<>> THEN "" ELSE insts[1][2].table
              Done(del) ==
                  /\ conn' = IF insts = <<>> \/ del.raised # "" THEN <<>>
                             ELSE <<Acquired(1), Executed(1)>>
                  /\ db' = IF insts = <<>> THEN db
                           ELSE [db EXCEPT ![t] = del.rows]
                  /\ out' = Out("remove", out.sync, t, NoWhere, <<>>, FALSE,
                                insts,
                                IF del.raised = "" THEN "ok" ELSE del.raised,
                                "", <<>>)
          IN Done(remove(insts))
    /\ UNCHANGED <<schema, dialect, serial, walkVars, joinVars, resVars, execVars, declVars, exprVars>>

\* Session.delete and AsyncSession.delete (session.py 308-313, 407-412):
\* nothing at all without ids; else the query is built, then the cursor
\* acquired and the DELETE executed through it
ConnDelete ==
    /\ ConnIdle
    /\ \E t \in SessTables : \E ids \in DeleteArgs :
          LET Done(del) ==
                  /\ conn' = IF ids = <<>> \/ del.raised # "" THEN <<>>
                             ELSE <<Acquired(1), Executed(1)>>
                  /\ db' = [db EXCEPT ![t] = del.rows]
                  /\ out' = Out("delete", out.sync, t, NoWhere, <<>>, FALSE, ids,
                                IF del.raised = "" THEN "ok" ELSE del.raised,
                                "", <<>>)
          IN Done(delete(t, ids))
    /\ UNCHANGED <<schema, dialect, serial, walkVars, joinVars, resVars, execVars, declVars, exprVars>>

\* every path walk_refs lists, on whatever table
ConnPaths == UNION {Range(walk_refs(t, <<>>)) : t \in SessTables}

\* the joins a caller passes: none, one path, or a path of the table and
\* then one more
ConnJoinChoices(t) ==
    {<<>>} \cup {<<p>> : p \in ConnPaths}
    \cup {s \in {<<p, q>> : p \in ConnPaths, q \in ConnPaths} :
             s[1][1].owner = t /\ s[2][1].owner # t}

\* the predicates a caller passes: none, or the field key equal to 1
ConnWheres(t) == {NoWhere, FieldEq(t, FieldOf(t, "key"), PyInt(1))}

\* the fetches behind a result object: one for every row it has taken off
\* the cursor, and the one that returned None
Fetches(q, res) ==
    [i \in 1..(Len(q.cursor) - Len(res.cursor) + (IF res.done THEN 1 ELSE 0))
        |-> Fetched(1)]

\* the log of a select, get or first call: nothing when building the
\* query raised; else the cursor, the SELECT, and the fetches of the result
\* object, which keeps the cursor it was made with (queries.py 96-102,
\* 132-137)
ReadLog(q, res) ==
    IF q.raised # "" THEN <<>>
    ELSE <<Acquired(1), Executed(1)>> \o Fetches(q.res, res)

\* the log of a call that reads its result with list(): the length hint
\* list() asks for fetches every row and the None after them, and the
\* first next() after it fetches once more (queries.py 99-102, 113-123)
ListLog(q) ==
    IF q.raised # "" THEN <<>>
    ELSE ReadLog(q, PyList(q.res).res)
         \o (IF PyList(q.res).raised = "" THEN <<Fetched(1)>> ELSE <<>>)

\* Session.select and AsyncSession.select (session.py 246-253, 338-345),
\* the result then read to its end by a for loop
ConnSelect ==
    /\ ConnIdle
    /\ \E c \in Calls : \E where \in ConnWheres(c.table) :
       \E joins \in ConnJoinChoices(c.table) :
          LET Done(q) ==
                  /\ out' = Returned("select", c, where, joins, <<>>,
                                select(c.sync, c.table, where, joins, c.auto_join))
                  /\ conn' = ReadLog(q, PyFor(q.res).res)
          IN Done(SelectQuery(c.table, where,
                              _select_joins(c.table, joins, c.auto_join), 0))
    /\ UNCHANGED <<schema, dialect, db, serial, walkVars, joinVars, resVars, execVars, declVars, exprVars>>

\* Session.get and AsyncSession.get (session.py 255-262, 347-354)
ConnGet ==
    /\ ConnIdle
    /\ \E c \in Calls : \E where \in ConnWheres(c.table) :
       \E joins \in ConnJoinChoices(c.table) :
          LET Done(q) ==
                  /\ out' = Returned("get", c, where, joins, <<>>,
                                get(c.sync, c.table, where, joins, c.auto_join))
                  /\ conn' = IF c.sync THEN ListLog(q)
                             ELSE ReadLog(q, PyFor(q.res).res)
          IN Done(SelectQuery(c.table, where,
                              _select_joins(c.table, joins, c.auto_join), 2))
    /\ UNCHANGED <<schema, dialect, db, serial, walkVars, joinVars, resVars, execVars, declVars, exprVars>>

\* Session.first and AsyncSession.first (session.py 264-271, 356-366)
ConnFirst ==
    /\ ConnIdle
    /\ \E c \in Calls : \E where \in ConnWheres(c.table) :
       \E joins \in ConnJoinChoices(c.table) :
          LET Done(q) ==
                  /\ out' = Returned("first", c, where, joins, <<>>,
                                first(c.sync, c.table, where, joins, c.auto_join))
                  /\ conn' = ReadLog(q, PyNext(q.res).res)
          IN Done(SelectQuery(c.table, where,
                              _select_joins(c.table, joins, c.auto_join), 1))
    /\ UNCHANGED <<schema, dialect, db, serial, walkVars, joinVars, resVars, execVars, declVars, exprVars>>

\* setup() and destroy(), broken: a cursor of its own for every statement
CallLogEach(n) ==
    [i \in 1..(2 * n) |->
        IF i % 2 = 1 THEN Acquired((i + 1) \div 2) ELSE Executed(i \div 2)]

\* the log of a call that asks for its cursor and then executes n
\* statements through it (session.py 233-244, 325-336)
CallLog(n) == <<Acquired(1)>> \o [i \in 1..n |-> Executed(1)]

\* the tables a caller passes to setup() and destroy(): none, one or two
ConnTableArgs ==
    {<<>>} \cup {<<t>> : t \in SessTables}
    \cup {c \in SessTables \X SessTables : c[1] # c[2]}

\* Session.setup and AsyncSession.setup (session.py 233-238, 325-330): the
\* cursor is acquired, then every CREATE TABLE IF NOT EXISTS is built and
\* executed through it; the tables exist, so the rows stay
ConnSetup ==
    /\ ConnIdle
    /\ \E tables \in ConnTableArgs :
          /\ conn' = CallLog(Len(tables))
          /\ out' = Out("setup", out.sync, "", NoWhere, <<>>, FALSE, tables,
                        "ok", "", <<>>)
    /\ UNCHANGED <<schema, dialect, db, serial, walkVars, joinVars, resVars, execVars, declVars, exprVars>>

\* Session.destroy and AsyncSession.destroy (session.py 240-244, 332-336):
\* the cursor is acquired, then every DROP TABLE IF EXISTS is built and
\* executed through it; the rows of the tables are gone
ConnDestroy ==
    /\ ConnIdle
    /\ \E tables \in ConnTableArgs :
          /\ conn' = CallLog(Len(tables))
          /\ db' = [t \in SessTables |->
                       IF \E i \in 1..Len(tables) : tables[i] = t THEN <<>>
                       ELSE db[t]]
          /\ serial' = [t \in SessTables |->
                           IF \E i \in 1..Len(tables) : tables[i] = t THEN 0
                           ELSE serial[t]]
          /\ out' = Out("destroy", out.sync, "", NoWhere, <<>>, FALSE, tables,
                        "ok", "", <<>>)
    /\ UNCHANGED <<schema, dialect, walkVars, joinVars, resVars, execVars, declVars, exprVars>>

\* create(), broken: the cursor is asked for before the row is built
CreateLogCursorFirst(cf) ==
    IF cf.raised # "" THEN <<Acquired(1)>> ELSE <<Acquired(1), Executed(1)>>

\* the log of create() (session.py 289-293, 388-392): the row and the
\* query are built, then the cursor acquired, then the INSERT executed
CreateLog(cf) ==
    IF cf.raised # "" THEN <<>> ELSE <<Acquired(1), Executed(1)>>

\* the keyword arguments a caller may pass to create(): those of
\* CreateArgs, and a key or nothing for an integer field that is neither
\* the primary key nor a foreign key
ConnCreateArgs(t, f) ==
    IF f.name # primary(t) /\ f.kind # "bool" /\ f.foreign = NoForeign
    THEN {PyNone} \cup {PyInt(k) : k \in Keys}
    ELSE CreateArgs(t, f)

\* Session.create and AsyncSession.create (session.py 289-293, 388-392)
ConnCreate ==
    /\ ConnIdle
    /\ \E t \in SessTables :
       \E data \in [FieldNames(t) -> UNION {ConnCreateArgs(t, FieldOf(t, n)) :
                                              n \in FieldNames(t)}] :
          /\ \A n \in FieldNames(t) :
                data[n] \in ConnCreateArgs(t, FieldOf(t, n))
          /\ LET cf == _create_fields(t, data)
                 ins == DbInsert(t, cf.cols, InsertValues(t, cf.cols, cf.row))
                 key == _get_row(lastrowid(dialect, ins.key))
             IN /\ conn' = CreateLog(cf)
                /\ IF cf.raised # ""
                   THEN /\ out' = Out("create", out.sync, t, NoWhere, <<>>, FALSE,
                                      <<data>>, cf.raised, "", <<>>)
                        /\ UNCHANGED <<db, serial>>
                   ELSE /\ db' = [db EXCEPT ![t] = Append(@, ins.row)]
                        /\ serial' = [serial EXCEPT ![t] = ins.key]
                        /\ out' = Out("create", out.sync, t, NoWhere, <<>>, FALSE,
                                      <<data>>, "ok", "", <<key>>)
    /\ UNCHANGED <<schema, dialect, walkVars, joinVars, resVars, execVars, declVars, exprVars>>

\* _load_one, broken: the instance found is returned and not kept
LoadBindForget(inst, ref, r) == inst

\* _load_one (session.py 120-122): bind.value = results[0] when there is a
\* result
LoadBind(inst, ref, r) ==
    IF r.raised = "" /\ r.value # <<>> THEN SetBind(inst, ref.name, r.value[1])
    ELSE inst

\* the paths a caller passes to load(): none or one
ConnLoadJoins == {<<>>} \cup {<<p>> : p \in ConnPaths}

\* Session.load and AsyncSession.load (session.py 278-287, 375-386) for
\* the bind of ref on inst: what it returns or raises, the instance
\* afterwards, and the log of the call
LoadCall(sync, ref, inst, joins, auto_join) ==
    LET Found(q, read) ==
            LET r == IF read.raised # ""
                     THEN [raised |-> read.raised, msg |-> "", value |-> <<>>]
                     ELSE _load_one(read.items, ref)
            IN [r |-> r, inst |-> LoadBind(inst, ref, r),
                log |-> IF sync THEN ListLog(q) ELSE ReadLog(q, read.res)]
        Queried(q) ==
            IF q.raised # ""
            THEN [r |-> [raised |-> q.raised, msg |-> "", value |-> <<>>],
                  inst |-> inst, log |-> <<>>]
            ELSE Found(q, IF sync THEN PyList(q.res) ELSE PyFor(q.res))
    IN IF HasBind(inst, ref.name)
       THEN [r |-> load(sync, ref, inst), inst |-> inst, log |-> <<>>]
       ELSE Queried(SelectQuery(ref.table, _load_where(ref, inst),
                                _select_joins(ref.table, joins, auto_join), 1))

\* first(T, T.key == k, joins) gives an instance, load() is called on the
\* bind of one of its references; the record of the call keeps the
\* reference, the instance before and the instance after
ConnLoad ==
    /\ ConnIdle
    /\ \E ref \in References : \E k \in Keys : \E given \in LoadJoins(ref) :
       \E joins \in ConnLoadJoins : \E auto_join \in BOOLEAN :
          LET where == FieldEq(ref.owner, FieldOf(ref.owner, "key"), PyInt(k))
              Bound(src) ==
                  /\ src.raised = ""
                  /\ src.value # <<>>
                  /\ LET lc == LoadCall(out.sync, ref, src.value[1], joins,
                                        auto_join)
                     IN /\ conn' = lc.log
                        /\ out' = Returned("load",
                                      [sync |-> out.sync, table |-> ref.table,
                                       auto_join |-> auto_join],
                                      NoWhere, joins,
                                      <<ref, src.value[1], lc.inst>>, lc.r)
          IN Bound(first(out.sync, ref.owner, where, given, FALSE))
    /\ UNCHANGED <<schema, dialect, db, serial, walkVars, joinVars, resVars, execVars, declVars, exprVars>>

\* load() called once more on the same bind, after a load() that returned
\* or found nothing; the record keeps what the first call returned
ConnLoadAgain ==
    /\ out.op = "load" /\ Len(out.arg) = 3
    /\ out.kind \in {"ok", "LookupError"}
    /\ LET ref == out.arg[1]
           lc == LoadCall(out.sync, ref, out.arg[3], out.joins, out.auto_join)
       IN /\ conn' = lc.log
          /\ out' = Returned("load",
                        [sync |-> out.sync, table |-> ref.table,
                         auto_join |-> out.auto_join],
                        NoWhere, out.joins,
                        <<ref, out.arg[3], lc.inst, out.value>>, lc.r)
    /\ UNCHANGED <<schema, dialect, db, serial, walkVars, joinVars, resVars, execVars, declVars, exprVars>>

InitConn ==
    /\ schema \in ConnSchemas
    /\ dialect \in Dialects
    /\ db = ConnDb(dialect)
    /\ serial = ConnSerial
    /\ out \in {[NoOut EXCEPT !.sync = sync] : sync \in BOOLEAN}
    /\ conn = <<>>
    /\ NoResult
    /\ NoExecute
    /\ NoExpr
    /\ NoDecl
    /\ wtable = "" /\ wstack = <<>> /\ wresult = <<>> /\ wpc = "idle"
    /\ jtable = "" /\ jspecs = <<>> /\ jresult = <<>> /\ jpc = "idle"

NextConn ==
    \/ ConnSetup \/ ConnDestroy \/ ConnCreate \/ ConnBulkCreate
    \/ ConnRemove \/ ConnDelete
    \/ ConnSelect \/ ConnGet \/ ConnFirst \/ ConnLoad \/ ConnLoadAgain

SpecConn == InitConn /\ [][NextConn]_vars

\* the cells of a bulk_create call, rows before columns
BulkCells(o) == (1..Len(o.arg[2])) \X (1..Len(o.arg[1]))

CellBefore(e, f) == e[1] < f[1] \/ (e[1] = f[1] /\ e[2] < f[2])

\* a cell that gives no value for a column that is not nullable and whose
\* default is left to the server
OmittedCell(o, e) ==
    /\ o.arg[1][e[2]] \in FieldNames(o.table)
    /\ FieldOf(o.table, o.arg[1][e[2]]).default = DefaultServer
    /\ ~FieldOf(o.table, o.arg[1][e[2]]).nullable
    /\ o.arg[2][e[1]][e[2]] = PyNone

\* a cell that gives no value for a column that is required
RequiredCell(o, e) ==
    /\ o.arg[1][e[2]] \in FieldNames(o.table)
    /\ FieldOf(o.table, o.arg[1][e[2]]).default = DefaultNone
    /\ ~FieldOf(o.table, o.arg[1][e[2]]).nullable
    /\ o.arg[2][e[1]][e[2]] = PyNone

UnknownColumn(o) == \E j \in 1..Len(o.arg[1]) : o.arg[1][j] \notin FieldNames(o.table)

\* a bulk_create call whose dialect has no DEFAULT keyword and one of
\* whose rows leaves a server-default column out
BulkOmits ==
    /\ out.op = "bulk_create"
    /\ server_default(dialect) = PyNone
    /\ \E e \in BulkCells(out) : OmittedCell(out, e)

RowsUnlike(t, inst) ==
    SelectSeq(ConnDb(dialect)[t], LAMBDA r : TableInit(t, r).inst.data # inst.data)

BadJoinPath ==
    /\ out.op \in {"select", "get", "first"}
    /\ \E i \in 1..Len(out.joins) : out.joins[i][1].owner # out.table

\* C24, as stated: such a call raises the AssertionError of join_refs and
\* executes no statement.
C24_BadPathFails ==
    BadJoinPath => (out.kind = "AssertionError" /\ Statements(conn) = {})

\* what the call of the record returns when it is made with auto_join and
\* without paths
AutoJoinCall ==
    CASE out.op = "get" -> get(out.sync, out.table, out.where, <<>>, TRUE)
      [] out.op = "first" -> first(out.sync, out.table, out.where, <<>>, TRUE)
      [] OTHER -> select(out.sync, out.table, out.where, <<>>, TRUE)

\* C24, amended: such a call made without auto_join raises the
\* AssertionError of join_refs, acquires no cursor and executes no
\* statement; made with auto_join it is the call without the paths, which
\* joins what walk_refs lists and executes its statement.
C24_BadPathUnlessAuto ==
    BadJoinPath =>
       IF ~out.auto_join
       THEN /\ out.kind = "AssertionError"
            /\ conn = <<>>
            /\ db = ConnDb(dialect)
       ELSE /\ out.kind # "AssertionError"
            /\ Cardinality(Statements(conn)) = 1
            /\ out.kind = Kind(AutoJoinCall)
            /\ out.value = AutoJoinCall.value

\* get on Mid, without auto_join, with the path of Outer.mid after the
\* path of Mid.inner: AssertionError
C24_Witness ==
    /\ out.op = "get" /\ out.table = "Mid" /\ ~out.auto_join
    /\ Len(out.joins) = 2
    /\ out.joins[1][1].owner = "Mid" /\ out.joins[2][1].owner = "Outer"
    /\ out.kind = "AssertionError"
    /\ conn = <<>>

(***************************************************************************)
(* Expr.__init__ (models.py 328-343).  An operand is a value of the model  *)
(* (int, bool, str, None), a pypika term, a list of values, a Field or an  *)
(* Expr; the operator of the expression plays no part in what becomes of   *)
(* the operands.                                                           *)
(***************************************************************************)
\* items a list operand carries
MaxSeq == 2

\* a Field operand, a list operand, an Expr operand
PyField(f) == <<"field", f>>

PySeq(items) == <<"seq", items>>

PyExpr(e) == <<"expr", e>>

\* the fields of the model: an int, a bool and a str one, each also as the
\* field of Nullable
ExprFields ==
    {Field("f", kind, nullable, DefaultNone, NoForeign) :
        kind \in {"int", "bool", "str"}, nullable \in BOOLEAN}

ExprScalars == {PyNone, PyInt(1), PyBool(TRUE), PyStr("5"), PyStr("x")}

ExprOperands ==
    ExprScalars
    \cup {PyNode("NOW()"), PyExpr("neg")}
    \cup {PyField(f) : f \in ExprFields}
    \cup {PySeq(s) : s \in UNION {[1..n -> ExprScalars] : n \in 0..MaxSeq}}

\* field.encode(arg) of an operand: of an Expr object int() raises
\* TypeError, bool() is True and str() is its repr; of a value, encode
EncodeOperand(field, v) ==
    IF field.nullable /\ v = PyNone THEN PyNone
    ELSE IF v[1] = "node" THEN v
    ELSE IF v[1] = "expr"
         THEN (CASE field.kind = "int" -> PyError("TypeError")
                 [] field.kind = "bool" -> PyBool(TRUE)
                 [] OTHER -> PyStr("<Expr>"))
    ELSE encode(field, v)

\* one operand of an expression with one Field as the documentation has
\* it: a Field and an Expr are kept as they are, the items of a sequence
\* are encoded one by one, anything else is encoded
ExprValueAsStated(field, v) ==
    IF v[1] \in {"field", "expr"} THEN v
    ELSE IF v[1] = "seq"
         THEN <<"tuple", [j \in 1..Len(v[2]) |-> encode(field, v[2][j])]>>
    ELSE encode(field, v)

\* lines 335-341: a Field, a pypika term and a str are kept as they are,
\* the items of a sequence are encoded one by one into a tuple, anything
\* else is encoded
ExprValue(field, v) ==
    IF v[1] \in {"field", "node", "str"} THEN v
    ELSE IF v[1] = "seq"
         THEN <<"tuple", [j \in 1..Len(v[2]) |-> encode(field, v[2][j])]>>
    ELSE EncodeOperand(field, v)

\* the exception of an encoded operand, "" for none
ExprRaised(v) ==
    IF v[1] = "error" THEN v[2]
    ELSE IF v[1] = "tuple" /\ \E j \in 1..Len(v[2]) : IsError(v[2][j])
         THEN v[2][CHOOSE j \in 1..Len(v[2]) :
                      /\ IsError(v[2][j])
                      /\ \A k \in 1..(j - 1) : ~IsError(v[2][k])][2]
    ELSE ""

\* Expr.__init__ (models.py 328-343): self.args, or the exception of the
\* first operand whose encoding raises
ExprInit(args) ==
    LET fs == {i \in 1..Len(args) : args[i][1] = "field"}
        Made(values) ==
            IF \E i \in 1..Len(args) : ExprRaised(values[i]) # ""
            THEN [raised |-> ExprRaised(values[CHOOSE i \in 1..Len(args) :
                                /\ ExprRaised(values[i]) # ""
                                /\ \A k \in 1..(i - 1) : ExprRaised(values[k]) = ""]),
                  args |-> <<>>]
            ELSE [raised |-> "", args |-> values]
    IN IF Cardinality(fs) = 1
       THEN Made([i \in 1..Len(args) |->
                     ExprValue(args[CHOOSE i2 \in fs : TRUE][2], args[i])])
       ELSE [raised |-> "", args |-> args]

\* Expr(op, *args)
ExprNew ==
    /\ expr.state = "call"
    /\ expr' = [state |-> "made", given |-> expr.given,
                raised |-> ExprInit(expr.given).raised,
                args |-> ExprInit(expr.given).args]
    /\ UNCHANGED <<schema, walkVars, joinVars, sessVars, resVars, execVars, declVars, connVars>>

InitExpr ==
    /\ schema = SessSchema
    /\ expr \in {[state |-> "call", given |-> g, raised |-> "", args |-> <<>>] :
                    g \in {<<a>> : a \in ExprOperands}
                          \cup (ExprOperands \X ExprOperands)}
    /\ NoSession
    /\ NoResult
    /\ NoExecute
    /\ NoDecl
    /\ NoConn
    /\ wtable = "" /\ wstack = <<>> /\ wresult = <<>> /\ wpc = "idle"
    /\ jtable = "" /\ jspecs = <<>> /\ jresult = <<>> /\ jpc = "idle"

NextExpr == ExprNew

SpecExpr == InitExpr /\ [][NextExpr]_vars

\* the Field operands of the expression
GivenFields == {i \in 1..Len(expr.given) : expr.given[i][1] = "field"}

\* C25: an expression made from operands of which exactly one is a Field
\* keeps the Field and every Expr operand as they are and holds every
\* other operand encoded by that Field, a sequence as the tuple of its
\* encoded items (and raises what an encoding raises); an expression made
\* from operands with no Field or several holds them as they were given.
C25_OperandsEncoded ==
    expr.state = "made" =>
       IF Cardinality(GivenFields) = 1
       THEN LET field == expr.given[CHOOSE i \in GivenFields : TRUE][2]
                stated == [i \in 1..Len(expr.given) |->
                              ExprValueAsStated(field, expr.given[i])]
            IN IF \E i \in 1..Len(stated) : ExprRaised(stated[i]) # ""
               THEN expr.raised # ""
               ELSE expr.raised = "" /\ expr.args = stated
       ELSE expr.raised = "" /\ expr.args = expr.given

\* C28: the flags iterating and done of a result object are never both
\* true, whatever the consumers have called and wherever an __anext__ is
\* suspended.
C28_IteratingXorDone ==
    ~(result.iterating /\ result.done)

(***************************************************************************)
(* An AsyncSession operation as a task of the event loop (session.py       *)
(* 325-412, queries.py 132-141, 258-264).  The task holds the loop from    *)
(* one await that suspends to the next; an await suspends when what it     *)
(* awaits is an awaitable of the driver, and then the loop runs the other  *)
(* tasks until the driver has the result.  call is the operation, the      *)
(* driver behind it and the number of rows (of tables, for setup and       *)
(* destroy) it deals with; xst is where the task stands.                   *)
(***************************************************************************)
\* steps the other tasks take during one operation
MaxOther == 2

TaskCalls ==
    [op : Operations, acursor : BOOLEAN, aexecute : BOOLEAN, afetch : BOOLEAN,
     n : 0..MaxFetch]

\* the statements the operation executes: one for every table of setup
\* and destroy, else one
TaskStatements(c) == IF c.op \in {"setup", "destroy"} THEN c.n ELSE 1

\* the task before its first line: it holds the loop, it has called
\* nothing on the connection, it holds no row, nothing is buffered
TaskStart(c) ==
    [pc |-> "build", running |-> "op", last |-> "", inhand |-> FALSE,
     left |-> c.n, buffer |-> 0, stmts |-> TaskStatements(c), others |-> 0,
     raised |-> ""]

\* "await maybe_await(x)" (utils.py 14-23): the task is suspended if and
\* only if x is awaitable
MaybeAwaitSuspends(awaitable) == awaitable

\* "await maybe_await(x)", broken: it also lets the loop run when x is a
\* row that was fetched without waiting
FetchAlwaysSuspends(awaitable) == TRUE

\* row = await maybe_await(self.cursor.fetchone()) (queries.py 137)
FetchSuspends(awaitable) == MaybeAwaitSuspends(awaitable)

\* where the task goes on after the statement: the next statement of
\* setup and destroy, the first fetch of the operations that read rows,
\* else the end
AfterStatement(c, st) ==
    IF st.stmts > 1 THEN "execute"
    ELSE IF c.op \in FetchOps THEN "fetch" ELSE "done"

\* the lines before the cursor is asked for: the query is built
\* (session.py 326-327, 340-341, 349-350, ...), nothing is awaited
TaskBuild ==
    /\ xst.running = "op" /\ xst.pc = "build"
    /\ xst' = [xst EXCEPT !.pc = "cursor"]
    /\ UNCHANGED <<schema, call, walkVars, joinVars, sessVars, resVars, declVars, connVars, exprVars>>

\* cursor = await maybe_await(self.conn.cursor())
TaskCursor ==
    /\ xst.running = "op" /\ xst.pc = "cursor"
    /\ xst' = IF MaybeAwaitSuspends(call.acursor)
              THEN [xst EXCEPT !.last = "cursor", !.running = "loop"]
              ELSE [xst EXCEPT !.last = "cursor",
                               !.pc = IF xst.stmts = 0 THEN "done" ELSE "execute"]
    /\ UNCHANGED <<schema, call, walkVars, joinVars, sessVars, resVars, declVars, connVars, exprVars>>

\* await query.execute(cursor): cursor.execute(sql) is called (queries.py
\* 254); an _AsyncQuery awaits what it returns through maybe_await
\* (queries.py 262), the queries of the sync session are awaited as they
\* are (session.py 330, 336, 405, 412), which raises TypeError for a value
\* that is not awaitable
TaskExecute ==
    /\ xst.running = "op" /\ xst.pc = "execute"
    /\ xst' = IF call.aexecute
              THEN [xst EXCEPT !.last = "execute", !.running = "loop"]
              ELSE IF call.op \in PlainQueryOps
                   THEN [xst EXCEPT !.last = "execute", !.pc = "done",
                                    !.raised = "TypeError"]
              ELSE [xst EXCEPT !.last = "execute",
                               !.pc = AfterStatement(call, xst),
                               !.stmts = @ - 1]
    /\ UNCHANGED <<schema, call, walkVars, joinVars, sessVars, resVars, declVars, connVars, exprVars>>

\* __anext__ up to its await (queries.py 136-137): _next_before, then
\* fetchone() is called; a row that came without waiting is in hand
TaskFetch ==
    /\ xst.running = "op" /\ xst.pc = "fetch"
    /\ xst' = IF FetchSuspends(call.afetch)
              THEN [xst EXCEPT !.last = "fetchone", !.running = "loop",
                               !.inhand = ~call.afetch /\ xst.left > 0]
              ELSE [xst EXCEPT !.last = "fetchone", !.pc = "after",
                               !.inhand = xst.left > 0]
    /\ UNCHANGED <<schema, call, walkVars, joinVars, sessVars, resVars, declVars, connVars, exprVars>>

\* __anext__ after its await (queries.py 138-141): _next_after
\* materializes the row and appends the instance to the buffer, or ends
\* the iteration; first returns at the first instance (session.py 362-363)
TaskAfter ==
    /\ xst.running = "op" /\ xst.pc = "after"
    /\ xst' = IF xst.inhand
              THEN [xst EXCEPT !.inhand = FALSE, !.left = @ - 1,
                               !.buffer = @ + 1,
                               !.pc = IF call.op = "first" THEN "done"
                                      ELSE "fetch"]
              ELSE [xst EXCEPT !.pc = "done"]
    /\ UNCHANGED <<schema, call, walkVars, joinVars, sessVars, resVars, declVars, connVars, exprVars>>

\* the driver has the result the task is suspended on: the loop gives the
\* task its turn and the await returns
TaskResume ==
    /\ xst.running = "loop"
    /\ xst' = CASE xst.last = "cursor" ->
                     [xst EXCEPT !.running = "op",
                                 !.pc = IF xst.stmts = 0 THEN "done"
                                        ELSE "execute"]
                [] xst.last = "execute" ->
                     [xst EXCEPT !.running = "op",
                                 !.pc = AfterStatement(call, xst),
                                 !.stmts = @ - 1]
                [] OTHER ->
                     [xst EXCEPT !.running = "op", !.pc = "after",
                                 !.inhand = xst.left > 0]
    /\ UNCHANGED <<schema, call, walkVars, joinVars, sessVars, resVars, declVars, connVars, exprVars>>

\* a step of another task: the loop runs it while the operation is
\* suspended
TaskOther ==
    /\ xst.running = "loop"
    /\ xst.others < MaxOther
    /\ xst' = [xst EXCEPT !.others = @ + 1]
    /\ UNCHANGED <<schema, call, walkVars, joinVars, sessVars, resVars, declVars, connVars, exprVars>>

InitTasks ==
    /\ schema = SessSchema
    /\ call \in TaskCalls
    /\ xst = TaskStart(call)
    /\ NoSession
    /\ NoResult
    /\ NoDecl
    /\ NoConn
    /\ NoExpr
    /\ wtable = "" /\ wstack = <<>> /\ wresult = <<>> /\ wpc = "idle"
    /\ jtable = "" /\ jspecs = <<>> /\ jresult = <<>> /\ jpc = "idle"

NextTasks ==
    \/ TaskBuild \/ TaskCursor \/ TaskExecute \/ TaskFetch \/ TaskAfter
    \/ TaskResume \/ TaskOther

SpecTasks == InitTasks /\ [][NextTasks]_vars

\* C26: another task takes a step only while the operation waits for the
\* connection to hand out the cursor, to execute the statement or to
\* fetch a row, and the driver made it wait; never while the query is
\* being built, and never while a fetched row is in hand that has not
\* been materialized and appended to the buffer.
C26_SuspensionPoints ==
    [][xst'.others > xst.others =>
          /\ \/ xst.last = "cursor" /\ call.acursor /\ xst.pc = "cursor"
             \/ xst.last = "execute" /\ call.aexecute /\ xst.pc = "execute"
             \/ xst.last = "fetchone" /\ call.afetch /\ xst.pc = "fetch"
          /\ xst.pc # "build"
          /\ ~xst.inhand]_vars

\* another task has run during a fetch of a get whose two rows both came
\* to be buffered
C26_Witness ==
    /\ call.op = "get" /\ call.afetch /\ call.n = 2
    /\ xst.others > 0
    /\ xst.last = "fetchone"
    /\ xst.pc = "done" /\ xst.buffer = 2

\* every statement and every fetch of the log goes through the cursor
\* the log begins with
ThroughFirstCursor(log) ==
    \A i \in 1..Len(log) :
       log[i].ev # "cursor" => (log[i].cursor = 1 /\ log[1] = Acquired(1))

\* a call that had nothing to ask the database: remove() without
\* instances, delete() without ids, load() on a bind that holds its value
NothingToDo ==
    \/ out.op \in {"remove", "delete"} /\ out.arg = <<>>
    \/ out.op = "load" /\ HasBind(out.arg[2], out.arg[1].name)

\* a call that raised while building its query: the KeyError of a
\* required field without value or of an unknown column, the AssertionError
\* of a bad join path, the TypeError of a value that is no instance or
\* cannot be encoded, the RuntimeError of an omitted bulk value or of a
\* table without primary key, which is not the one execute() raises
BuildFailed ==
    \/ out.kind \in {"KeyError", "AssertionError", "TypeError"}
    \/ out.kind = "RuntimeError" /\ out.msg # "Failed to execute query"

LoadedAgain == out.op = "load" /\ Len(out.arg) = 4

\* C29: load on a bind that holds a value returns that value, acquires no
\* cursor and executes nothing; a load that finds a row leaves it in the
\* bind; and the load after a load that returned an instance returns the
\* same instance, with no cursor, no statement and the rows untouched.
C29_LoadKeepsValue ==
    out.op = "load" =>
       LET name == out.arg[1].name
       IN /\ HasBind(out.arg[2], name) =>
                /\ out.kind = "ok"
                /\ out.value = IF BindValue(out.arg[2], name) = NoInst
                               THEN <<>>
                               ELSE <<BindValue(out.arg[2], name)>>
                /\ conn = <<>>
                /\ out.arg[3] = out.arg[2]
          /\ (~HasBind(out.arg[2], name) /\ out.kind = "ok"
                /\ out.value # <<>>) =>
                /\ Cardinality(Cursors(conn)) = 1
                /\ HasBind(out.arg[3], name)
                /\ BindValue(out.arg[3], name) = out.value[1]
          /\ (LoadedAgain /\ out.arg[4] # <<>>) =>
                /\ out.kind = "ok"
                /\ out.value = out.arg[4]
                /\ conn = <<>>
                /\ db = ConnDb(dialect)

\* the second load on the bind "mid" of the Outer that refers to the Mid:
\* the first found the Mid with a query, the second returns it from the
\* bind
C29_Witness ==
    /\ LoadedAgain
    /\ out.arg[1].name = "mid"
    /\ out.arg[4] # <<>> /\ out.value = out.arg[4]
    /\ out.arg[4][1].table = "Mid"
    /\ conn = <<>>

\* C30: a create, bulk_create, select, get, first, load, remove or delete
\* that fails while building its query has acquired no cursor and executed
\* no statement, and every row is where it was.
C30_BuildFailsFirst ==
    (BuildFailed /\ out.op \notin {"setup", "destroy"}) =>
       /\ conn = <<>>
       /\ db = ConnDb(dialect)
       /\ serial = ConnSerial

\* create of a Mid without its required inner_key: KeyError, no cursor
C30_Witness ==
    /\ out.op = "create" /\ out.table = "Mid"
    /\ out.arg[1]["inner_key"] = PyNone
    /\ out.kind = "KeyError"
    /\ conn = <<>>
    /\ db = ConnDb(dialect)

=============================================================================
